---------------------------- MODULE Spec2Model ----------------------------
(***************************************************************************)
(* Verification model of the Cyclops edge application.                     *)
(*                                                                         *)
(* Fifteen specifications share the module:                                *)
(*   Spec      - the orchestrator of src/main.py: ProcessManager, the five *)
(*               worker processes and the telemetry semaphore;             *)
(*   SpecQueue - the sensor module inside one sensor process: DataQueue,   *)
(*               the collection loop of SensorInterface and a consumer;    *)
(*   SpecDB    - the Telemetry Database: write, update_log_sent_mqtt and   *)
(*               clean_telemetry_db over TELEMETRY_LOG and TELEMETRY;      *)
(*   SpecGateway - the IoT gateway of src/iotGateway/client.py under any   *)
(*               caller: connect, disconnect, send_telemetry,              *)
(*               send_predictions;                                         *)
(*   SpecIot   - the IoT worker of src/main.py with the gateway, the two   *)
(*               databases it uploads from, and the cleanup worker;        *)
(*   SpecIotLive - SpecIot with the workers scheduled fairly.              *)
(*   SpecSeed  - the MI Database being built and seeded from the config,   *)
(*               and the EventEngine built on it;                          *)
(*   SpecMiDb  - update_event and save_prediction of the MI Database;      *)
(*   SpecEngine - the detection passes of src/eventModule/event_engine.py; *)
(*   SpecObservers - the observer list of the event engine;                *)
(*   SpecLcd   - the LCD module: row formatting and the backlight cache;   *)
(*   SpecModel - the LSTM state files of src/miModule/tflite_model.py;     *)
(*   SpecMiWorker - the baseline wait and the inference cycles of the MI   *)
(*               detection worker of src/main.py;                          *)
(*   SpecSerial - SerialCommunicator and its reconnect on failure;         *)
(*   SpecCollect - SensorInterface's collection thread and its flag.       *)
(*                                                                         *)
(* Calls are followed to the method the caller evidently means (main.py's  *)
(* getNbOfSamplesCollected / getSample are SensorInterface.get_sample_count*)
(* / get_sample).  Every worker may raise at any step, which covers the    *)
(* exceptions its calls can throw.                                         *)
(***************************************************************************)
EXTENDS Integers, Sequences, FiniteSets, TLC

VARIABLES
    \* ---- orchestrator (src/main.py) ----
    mgr_pc,                 \* where main() / ProcessManager is
    mgr_mode,               \* why cleanup_processes runs: restart, fatal, interrupt
    kill_idx,               \* index of cleanup_processes' for loop
    running_processes,      \* ProcessManager.running_processes
    process_fail_count,     \* ProcessManager.process_fail_count
    process_restart_count,  \* config["process_restart_count"]
    generation,             \* number of start_processes calls so far
    wpc,                    \* each worker process's position
    wrem,                   \* remaining iterations of a worker's for loop
    sem,                    \* value of telemetry_db_semaphore
    held,                   \* live processes between acquire and release
    qlen,                   \* samples queued in the sensor process
    n_detected,             \* history: failures the monitor has detected
    drain_broke,            \* history: the sensor's last drain ended at "break"
    \* ---- sensor module (src/sensorModule) ----
    q_queue,                \* DataQueue._queue, leftmost element first
    q_buffer_size,          \* SensorInterface._buffer_size
    q_cpc,                  \* collection thread's position in _process_payload
    q_payload,              \* the payload the collection thread has read
    q_nput,                 \* history: number of put calls
    q_got,                  \* history: items returned by get, in order
    q_cleared,              \* history: clear was called
    q_last,                 \* history: outcome of the last _process_payload
    \* ---- telemetry database (src/telemetryDatabase) ----
    db_log,                 \* TELEMETRY_LOG: id -> sent_mqtt_payload
    db_telemetry,           \* TELEMETRY: rows <<id, telemetry_log_id, telemetry_type_id>>
    db_last,                \* history: outcome of the last database call
    \* ---- IoT gateway (src/iotGateway/client.py) ----
    gw_connected,           \* ThingsBoardClient._connected
    gw_mqtt_connected,      \* MQTTInterface._connected
    gw_session,             \* TBDeviceMqttClient.is_connected(): the transport is live
    gw_wifi,                \* what settings.connection.test_wifi_connection() finds
    gw_pc,                  \* "idle", or "handshake" inside connect's for loop
    gw_handshakes,          \* outcomes of the handshakes of the current/last connect
    gw_op,                  \* the gateway method called last
    gw_in,                  \* history: what the last call found when it began
    gw_ret,                 \* what the last call returned ("raise": it raised)
    gw_pub,                 \* history: the last send call published its payload
    \* ---- IoT worker and cleanup worker (src/main.py), MI predictions ----
    iot_pc,                 \* the IoT worker's position in _run_iot_process
    iot_list,               \* mqtt_list: the log ids the for loop has still to do
    iot_batch,              \* predictions["ids"] the worker has still to flag
    iot_published,          \* history: log ids whose payload was published
    iot_pred_published,     \* history: prediction ids whose batch was published
    iot_failed_send,        \* history: ids whose last send returned failure
    mi_pred,                \* PREDICTION: id -> sent_mqtt_payload
    clean_pc,               \* the cleanup worker's position in clean_telemetry_db
    clean_ids,              \* clean_telemetry_db's log_ids
    \* ---- MI Database (src/miDatabase/database.py) ----
    mi_config,              \* Database._config: the configuration document
    mi_analyte,             \* ANALYTE: the names of its rows (name is unique)
    mi_event,               \* EVENT: event_name -> row (event_name is unique)
    mi_prediction,          \* PREDICTION: its rows, in insertion order
    mi_op,                  \* the database method called last, with its input
    mi_ret,                 \* what the last call returned
    \* ---- Event engine (src/eventModule/event_engine.py) ----
    ee_built,               \* EventEngine.__init__: not run, built, or raised
    ee_pc,                  \* position inside run_event_engine
    ee_names,               \* get_event_names(): the names the for loop has to do
    ee_detection_time,      \* detection_time of the current pass
    ee_now,                 \* datetime.now(), in seconds
    ee_ticks,               \* how many times the clock has moved
    ee_prediction,          \* get_prediction_value(name): the latest value or None
    ee_observers,           \* EventEngine._observers: what each does when notified
    ee_delivered,           \* history: the events each observer was called with
    ee_history,             \* EventEngine._event_history
    ee_last,                \* history: how the last run_event_engine call began
    ee_upd,                 \* history: the last step's update_event call
    \* ---- LCD (src/lcdModule) ----
    lcd_built,              \* RGB1602.__init__ has run
    lcd_last_rgb,           \* RGB1602._last_rgb
    lcd_regs,               \* REG_RED, REG_GREEN, REG_BLUE of the backlight chip
    lcd_rows,               \* the text printout wrote to row 0 and row 1
    lcd_op,                 \* the call made last, with its outcome
    \* ---- TFLite model (src/miModule/tflite_model.py) ----
    tf_files,               \* h1.npy, c1.npy, h2.npy, c2.npy in model_dir
    tf_states,              \* TFLiteModel.states, or <<>> without a model
    tf_built,               \* TFLiteModel.__init__: not run, built, or raised
    tf_op,                  \* the call made last, with what it found
    \* ---- MI-detection worker (src/main.py) ----
    miw_pc,                 \* the worker's position in _run_mi_detection_process
    miw_config,             \* baseline_count and event_delay of the config
    miw_logs,               \* number of TELEMETRY_LOG rows
    miw_valued,             \* number of logs that have TELEMETRY rows
    miw_baseline,           \* baseline: <<>> for None, else <<number of rows>>
    miw_count,              \* mi_detection_count
    miw_saved,              \* save_prediction calls that committed rows
    miw_cycles,             \* history: completed inference cycles
    miw_invoked,            \* history: the cycles after which the engine was called
    miw_skipped,            \* history: cycles skipped for want of telemetry
    miw_ever,               \* history: the database has held baseline_count logs
    \* ---- serial communicator (src/sensorModule/serial_communicator.py) ----
    ser_serial,             \* SerialCommunicator._serial: "open" or "None"
    ser_link,               \* the serial device: "up", or "down" (unplugged)
    ser_waiting,            \* payloads waiting in the driver's buffer
    ser_reconnects,         \* history: _reconnect calls so far
    ser_op,                 \* the method called last and how it ended
    \* ---- collection switch (src/sensorModule/sensor_interface.py) ----
    col_enabled,            \* SensorInterface._collection_enabled
    col_pc,                 \* the collection thread's position in its loop
    col_waiting,            \* payloads waiting in the serial driver's buffer
    col_queued,             \* samples in the DataQueue
    col_stopped,            \* history: stop_collection returned, no start since
    col_read,               \* history: a serial read was made while stopped
    col_put                 \* history: a sample was enqueued while stopped

orch_vars == <<mgr_pc, mgr_mode, kill_idx, running_processes, process_fail_count,
               process_restart_count, generation, wpc, wrem, sem, held, qlen,
               n_detected, drain_broke>>
queue_vars == <<q_queue, q_buffer_size, q_cpc, q_payload, q_nput, q_got,
                q_cleared, q_last>>
db_vars == <<db_log, db_telemetry, db_last>>
gw_vars == <<gw_connected, gw_mqtt_connected, gw_session, gw_wifi, gw_pc,
             gw_handshakes, gw_op, gw_in, gw_ret, gw_pub>>
iot_vars == <<iot_pc, iot_list, iot_batch, iot_published, iot_pred_published,
              iot_failed_send, mi_pred, clean_pc, clean_ids>>
mi_vars == <<mi_config, mi_analyte, mi_event, mi_prediction, mi_op, mi_ret>>
ee_vars == <<ee_built, ee_pc, ee_names, ee_detection_time, ee_now, ee_ticks,
             ee_prediction, ee_observers, ee_delivered, ee_history, ee_last,
             ee_upd>>
lcd_vars == <<lcd_built, lcd_last_rgb, lcd_regs, lcd_rows, lcd_op>>
tf_vars == <<tf_files, tf_states, tf_built, tf_op>>
miw_vars == <<miw_pc, miw_config, miw_logs, miw_valued, miw_baseline, miw_count,
              miw_saved, miw_cycles, miw_invoked, miw_skipped, miw_ever>>
ser_vars == <<ser_serial, ser_link, ser_waiting, ser_reconnects, ser_op>>
col_vars == <<col_enabled, col_pc, col_waiting, col_queued, col_stopped,
              col_read, col_put>>
unit_vars == <<lcd_vars, tf_vars, miw_vars, ser_vars, col_vars>>
vars == <<orch_vars, queue_vars, db_vars, gw_vars, iot_vars, mi_vars, ee_vars,
          unit_vars>>

(***************************************************************************)
(* Bounds of the model.                                                    *)
(***************************************************************************)
MaxRestartCount == 1    \* process_restart_count ranges over 0..MaxRestartCount
MaxQueued == 1          \* samples the orchestrator model lets the sensor queue hold
MaxUnsent == 1          \* unsent logs one IoT sweep iterates over

(***************************************************************************)
(* Orchestrator: src/main.py                                               *)
(***************************************************************************)

\* start_processes' process_functions, in order.
process_functions ==
    <<"_run_sensor_process", "_run_ui_process", "_run_mi_detection_process",
      "_run_iot_process", "_run_db_cleanup_process">>

Fns == {process_functions[i] : i \in 1..Len(process_functions)}
MaxGen == MaxRestartCount + 1
Proc == (1..MaxGen) \X Fns

\* telemetry_db_semaphore = Semaphore(1)
SemaphoreInitial == 1

NotRunning == {"none", "failed", "dead"}
alive(p) == wpc[p] \notin NotRunning

\* The first position of each worker function.
EntryPc(fn) ==
    CASE fn = "_run_sensor_process" -> "sleep"
      [] fn = "_run_ui_process" -> "get_baseline"
      [] fn = "_run_mi_detection_process" -> "get_baseline"
      [] fn = "_run_iot_process" -> "sleep"
      [] fn = "_run_db_cleanup_process" -> "sleep"

\* The Telemetry Database call a worker at position pc is executing.
TelemetryOps ==
    {"write", "get_unsent_mqtt_logs", "get_unsent_mqtt_log", "update_log_sent_mqtt",
     "get_baseline", "wait_baseline", "get_last_log_and_sensor_Values",
     "get_latest_meta_data", "clean_telemetry_db"}

\* multiprocessing.Semaphore.acquire: what a call gets for the value s.
AcquireOutcome(block, s) ==
    IF s > 0 THEN "acquired" ELSE IF block THEN "wait" ELSE "failed"

\* Mutant of SensorAcquireBlock: a blocking acquire on the write path.
SensorAcquireBlock_blocking == TRUE

\* The block argument of the sensor worker's acquire (main.py:155).
SensorAcquireBlock == FALSE

\* Semaphore.release has no upper bound (it is not a BoundedSemaphore).
Release(s) == s + 1

OrchInit ==
    /\ mgr_pc = "start"
    /\ mgr_mode = "run"
    /\ kill_idx = 0
    /\ running_processes = <<>>
    /\ process_fail_count = 0
    /\ process_restart_count \in 0..MaxRestartCount
    /\ generation = 1
    /\ wpc = [p \in Proc |-> "none"]
    /\ wrem = [p \in Proc |-> 0]
    /\ sem = SemaphoreInitial
    /\ held = {}
    /\ qlen = 0
    /\ n_detected = 0
    /\ drain_broke = FALSE

QueueIdle ==
    /\ q_queue = <<>>
    /\ q_buffer_size = 0
    /\ q_cpc = "idle"
    /\ q_payload = <<>>
    /\ q_nput = 0
    /\ q_got = <<>>
    /\ q_cleared = FALSE
    /\ q_last = "none"

DbIdle ==
    /\ db_log = <<>>
    /\ db_telemetry = {}
    /\ db_last = <<"none", "none">>

\* ThingsBoardClient.__init__ / MQTTInterface.__init__; no call made yet.
NoCall == [connected |-> FALSE, wifi |-> FALSE, live |-> FALSE,
           payload_len |-> 0, transport |-> "none"]

GatewayIdle ==
    /\ gw_connected = FALSE
    /\ gw_mqtt_connected = FALSE
    /\ gw_session = FALSE
    /\ gw_wifi = FALSE
    /\ gw_pc = "idle"
    /\ gw_handshakes = <<>>
    /\ gw_op = "none"
    /\ gw_in = NoCall
    /\ gw_ret = "none"
    /\ gw_pub = FALSE

IotIdle ==
    /\ iot_pc = "off"
    /\ iot_list = <<>>
    /\ iot_batch = {}
    /\ iot_published = {}
    /\ iot_pred_published = {}
    /\ iot_failed_send = {}
    /\ mi_pred = <<>>
    /\ clean_pc = "off"
    /\ clean_ids = {}

\* No configuration document is loaded.
NoConfig == [supported_analytes |-> <<>>, supported_event_types |-> {},
             supported_states |-> <<>>, default_state |-> "none",
             thresholds |-> <<>>, event_delay |-> 0,
             analyte_thresholds |-> <<>>]

NoUpdate == [event |-> "none", ret |-> "none"]

MiIdle ==
    /\ mi_config = NoConfig
    /\ mi_analyte = {}
    /\ mi_event = <<>>
    /\ mi_prediction = <<>>
    /\ mi_op = <<"none">>
    /\ mi_ret = "none"

EngineIdle ==
    /\ ee_built = "none"
    /\ ee_pc = "off"
    /\ ee_names = {}
    /\ ee_detection_time = 0
    /\ ee_now = 0
    /\ ee_ticks = 0
    /\ ee_prediction = <<>>
    /\ ee_observers = <<>>
    /\ ee_delivered = <<>>
    /\ ee_history = <<>>
    /\ ee_last = "none"
    /\ ee_upd = NoUpdate

EventIdle == MiIdle /\ EngineIdle

\* The backlight registers before anything was written to them.
Unwritten == <<<<>>, <<>>, <<>>>>

LcdIdle ==
    /\ lcd_built = FALSE
    /\ lcd_last_rgb = <<>>
    /\ lcd_regs = Unwritten
    /\ lcd_rows = <<<<>>, <<>>>>
    /\ lcd_op = <<"none">>

\* The state files of _state_files_exist, in its order.
StateFiles == <<"h1.npy", "c1.npy", "h2.npy", "c2.npy">>

TfIdle ==
    /\ tf_files = [k \in DOMAIN StateFiles |-> "missing"]
    /\ tf_states = <<>>
    /\ tf_built = "none"
    /\ tf_op = <<"none">>

MiWorkerIdle ==
    /\ miw_pc = "off"
    /\ miw_config = [baseline_count |-> 0, event_delay |-> 0]
    /\ miw_logs = 0
    /\ miw_valued = 0
    /\ miw_baseline = <<>>
    /\ miw_count = 0
    /\ miw_saved = 0
    /\ miw_cycles = 0
    /\ miw_invoked = {}
    /\ miw_skipped = 0
    /\ miw_ever = FALSE

SerialIdle ==
    /\ ser_serial = "None"
    /\ ser_link = "up"
    /\ ser_waiting = 0
    /\ ser_reconnects = 0
    /\ ser_op = <<"none", "none">>

CollectIdle ==
    /\ col_enabled = TRUE
    /\ col_pc = "off"
    /\ col_waiting = 0
    /\ col_queued = 0
    /\ col_stopped = FALSE
    /\ col_read = FALSE
    /\ col_put = FALSE

UnitsIdle == LcdIdle /\ TfIdle /\ MiWorkerIdle /\ SerialIdle /\ CollectIdle

Init == OrchInit /\ QueueIdle /\ DbIdle /\ GatewayIdle /\ IotIdle /\ EventIdle /\ UnitsIdle

QueueUnchanged == UNCHANGED queue_vars
DbUnchanged == UNCHANGED db_vars
GatewayUnchanged == UNCHANGED gw_vars
IotUnchanged == UNCHANGED iot_vars
MiUnchanged == UNCHANGED mi_vars
EngineUnchanged == UNCHANGED ee_vars
EventUnchanged == MiUnchanged /\ EngineUnchanged
LcdUnchanged == UNCHANGED lcd_vars
TfUnchanged == UNCHANGED tf_vars
MiWorkerUnchanged == UNCHANGED miw_vars
SerialUnchanged == UNCHANGED ser_vars
CollectUnchanged == UNCHANGED col_vars
UnitsUnchanged ==
    /\ LcdUnchanged /\ TfUnchanged /\ MiWorkerUnchanged /\ SerialUnchanged
    /\ CollectUnchanged
OthersUnchanged ==
    /\ QueueUnchanged /\ DbUnchanged /\ GatewayUnchanged /\ IotUnchanged
    /\ EventUnchanged /\ UnitsUnchanged

At(p, fn, pc) == p[2] = fn /\ wpc[p] = pc

\* Mutant of RestartBudgetExceeded: the comparison off by one.
RestartBudgetExceeded_ge(count, limit) == count >= limit

\* monitor_processes: "if self.process_fail_count > self.config[...]".
RestartBudgetExceeded(count, limit) == count > limit

\* Mutant of fail_count_when_fatal: the counter is left as it is.
fail_count_when_fatal_kept(count) == count

\* monitor_processes: "self.process_fail_count = 0" before the raise.
fail_count_when_fatal(count) == 0

\* Mutant of KillList: only the worker that failed is torn down.
KillList_failed_only == SelectSeq(running_processes, LAMBDA p : ~alive(p))

\* cleanup_processes: the processes its for loop kills.
KillList == running_processes

\* start_processes, one iteration of its for loop: create the process, append
\* it to running_processes and start it; after the last one, sleep and return.
StartProcess ==
    /\ mgr_pc = "start"
    /\ Len(running_processes) < Len(process_functions)
    /\ LET i == Len(running_processes) + 1
           p == <<generation, process_functions[i]>>
       IN /\ running_processes' = Append(running_processes, p)
          /\ wpc' = [wpc EXCEPT ![p] = EntryPc(p[2])]
          /\ qlen' = IF p[2] = "_run_sensor_process" THEN 0 ELSE qlen
          /\ mgr_pc' = IF i = Len(process_functions) THEN "monitor" ELSE "start"
    /\ UNCHANGED <<mgr_mode, kill_idx, process_fail_count, process_restart_count,
                   generation, wrem, sem, held, n_detected, drain_broke>>
    /\ OthersUnchanged

\* monitor_processes: a process of running_processes has sent its exception.
MonitorDetect ==
    /\ mgr_pc = "monitor"
    /\ \E i \in 1..Len(running_processes) :
         LET p == running_processes[i]
         IN /\ wpc[p] = "failed"
            /\ wpc' = [wpc EXCEPT ![p] = "dead"]          \* process.terminate()
    /\ n_detected' = n_detected + 1
    /\ IF RestartBudgetExceeded(process_fail_count + 1, process_restart_count)
         THEN /\ process_fail_count' = fail_count_when_fatal(process_fail_count + 1)
              /\ mgr_mode' = "fatal"                       \* raise ChildProcessError
         ELSE /\ process_fail_count' = process_fail_count + 1
              /\ mgr_mode' = "restart"
    /\ mgr_pc' = "cleanup"
    /\ UNCHANGED <<kill_idx, running_processes, process_restart_count, generation,
                   wrem, sem, held, qlen, drain_broke>>
    /\ OthersUnchanged

\* main: KeyboardInterrupt while the manager starts or monitors the workers.
Interrupt ==
    /\ mgr_pc \in {"start", "monitor"}
    /\ mgr_mode' = "interrupt"
    /\ mgr_pc' = "cleanup"
    /\ UNCHANGED <<kill_idx, running_processes, process_fail_count,
                   process_restart_count, generation, wpc, wrem, sem, held, qlen,
                   n_detected, drain_broke>>
    /\ OthersUnchanged

\* What follows cleanup_processes: start_processes after a restart, the end of
\* main() after ChildProcessError or KeyboardInterrupt.
AfterCleanup == IF mgr_mode = "restart" THEN "start" ELSE "done"

\* cleanup_processes, first statement: telemetry_db_semaphore.release().
CleanupRelease ==
    /\ mgr_pc = "cleanup"
    /\ sem' = Release(sem)
    /\ IF KillList = <<>>
         THEN /\ running_processes' = <<>>
              /\ mgr_pc' = AfterCleanup
              /\ generation' = IF mgr_mode = "restart" THEN generation + 1 ELSE generation
              /\ kill_idx' = 0
         ELSE /\ mgr_pc' = "kill"
              /\ kill_idx' = 1
              /\ UNCHANGED <<running_processes, generation>>
    /\ UNCHANGED <<mgr_mode, process_fail_count, process_restart_count, wpc, wrem,
                   held, qlen, n_detected, drain_broke>>
    /\ OthersUnchanged

\* cleanup_processes, one iteration of "for process in ...: process.kill()";
\* after the last one, running_processes = [].
KillProcess ==
    /\ mgr_pc = "kill"
    /\ LET p == KillList[kill_idx]
       IN /\ wpc' = [wpc EXCEPT ![p] = "dead"]
          /\ wrem' = [wrem EXCEPT ![p] = 0]
          /\ held' = held \ {p}
          /\ qlen' = IF p[2] = "_run_sensor_process" THEN 0 ELSE qlen
    /\ IF kill_idx = Len(KillList)
         THEN /\ running_processes' = <<>>
              /\ mgr_pc' = AfterCleanup
              /\ generation' = IF mgr_mode = "restart" THEN generation + 1 ELSE generation
              /\ kill_idx' = 0
         ELSE /\ kill_idx' = kill_idx + 1
              /\ UNCHANGED <<mgr_pc, running_processes, generation>>
    /\ UNCHANGED <<mgr_mode, process_fail_count, process_restart_count, sem,
                   n_detected, drain_broke>>
    /\ OthersUnchanged

MgrUnchanged ==
    UNCHANGED <<mgr_pc, mgr_mode, kill_idx, running_processes, process_fail_count,
                process_restart_count, generation, n_detected>>

\* A worker's step: its position and loop counter, the semaphore, the queue.
WorkerStep(p, pc, rem, s, h, q) ==
    /\ drain_broke' = IF At(p, "_run_sensor_process", "acquire") /\ pc = "sleep"
                        THEN TRUE
                        ELSE IF At(p, "_run_sensor_process", "sleep") /\ pc = "acquire"
                               THEN FALSE
                               ELSE drain_broke
    /\ wpc' = [wpc EXCEPT ![p] = pc]
    /\ wrem' = [wrem EXCEPT ![p] = rem]
    /\ sem' = s
    /\ held' = h
    /\ qlen' = q
    /\ MgrUnchanged
    /\ OthersUnchanged

\* _run_sensor_process: sleep(0.5); nb_of_samples = ...; "continue" when 0.
SensorPoll(p) ==
    /\ At(p, "_run_sensor_process", "sleep")
    /\ qlen > 0
    /\ WorkerStep(p, "acquire", qlen, sem, held, qlen)

\* _run_sensor_process: "if telemetry_db_semaphore.acquire(block=False): ... else: break".
SensorAcquire(p) ==
    /\ At(p, "_run_sensor_process", "acquire")
    /\ LET o == AcquireOutcome(SensorAcquireBlock, sem)
       IN \/ /\ o = "acquired"
             /\ WorkerStep(p, "write", wrem[p], sem - 1, held \cup {p}, qlen)
          \/ /\ o = "failed"
             /\ WorkerStep(p, "sleep", 0, sem, held, qlen)

\* _run_sensor_process: telemetry_database.write(sensor_interface.getSample()),
\* then "finally: telemetry_db_semaphore.release()" and the next iteration.
SensorWrite(p) ==
    /\ At(p, "_run_sensor_process", "write")
    /\ WorkerStep(p, IF wrem[p] > 1 THEN "acquire" ELSE "sleep",
                  IF wrem[p] > 1 THEN wrem[p] - 1 ELSE 0,
                  Release(sem), held \ {p},
                  IF qlen > 0 THEN qlen - 1 ELSE 0)

\* The sensor process's collection thread enqueues a sample.
CollectionThreadPut(p) ==
    /\ p[2] = "_run_sensor_process"
    /\ alive(p)
    /\ qlen < MaxQueued
    /\ WorkerStep(p, wpc[p], wrem[p], sem, held, qlen + 1)

\* _run_iot_process: sleep(0.5); tb_mqtt.connect() succeeded.
IotSweep(p) ==
    /\ At(p, "_run_iot_process", "sleep")
    /\ WorkerStep(p, "get_unsent_mqtt_logs", 0, sem, held, qlen)

\* _run_iot_process: mqtt_list = telemetry_database.get_unsent_mqtt_logs().
IotGetLogs(p) ==
    /\ At(p, "_run_iot_process", "get_unsent_mqtt_logs")
    /\ \E n \in 0..MaxUnsent :
         WorkerStep(p, IF n = 0 THEN "sleep" ELSE "get_unsent_mqtt_log", n,
                    sem, held, qlen)

\* _run_iot_process: payload = get_unsent_mqtt_log(log_id); the send; "break"
\* when it returns None.
IotGetLog(p) ==
    /\ At(p, "_run_iot_process", "get_unsent_mqtt_log")
    /\ \E sent \in BOOLEAN :
         IF sent THEN WorkerStep(p, "acquire", wrem[p], sem, held, qlen)
                 ELSE WorkerStep(p, "sleep", 0, sem, held, qlen)

\* _run_iot_process: "if telemetry_db_semaphore.acquire(block=True):".
IotAcquire(p) ==
    /\ At(p, "_run_iot_process", "acquire")
    /\ AcquireOutcome(TRUE, sem) = "acquired"
    /\ WorkerStep(p, "update_log_sent_mqtt", wrem[p], sem - 1, held \cup {p}, qlen)

\* _run_iot_process: update_log_sent_mqtt(log_id, True); finally release.
IotUpdate(p) ==
    /\ At(p, "_run_iot_process", "update_log_sent_mqtt")
    /\ WorkerStep(p, IF wrem[p] > 1 THEN "get_unsent_mqtt_log" ELSE "sleep",
                  IF wrem[p] > 1 THEN wrem[p] - 1 ELSE 0,
                  Release(sem), held \ {p}, qlen)

\* _run_mi_detection_process: get_baseline(...) returned a baseline.
MiBaseline(p) ==
    /\ At(p, "_run_mi_detection_process", "get_baseline")
    /\ WorkerStep(p, "acquire", 0, sem, held, qlen)

\* _run_mi_detection_process: sleep(prediction_delay); "with telemetry_db_semaphore:".
MiAcquire(p) ==
    /\ At(p, "_run_mi_detection_process", "acquire")
    /\ AcquireOutcome(TRUE, sem) = "acquired"
    /\ WorkerStep(p, "get_last_log_and_sensor_Values", 0, sem - 1, held \cup {p}, qlen)

\* _run_mi_detection_process: get_last_log_and_sensor_Values().
MiLastLog(p) ==
    /\ At(p, "_run_mi_detection_process", "get_last_log_and_sensor_Values")
    /\ WorkerStep(p, "get_latest_meta_data", 0, sem, held, qlen)

\* _run_mi_detection_process: get_latest_meta_data(); the with block ends; the
\* inference, the prediction and the event engine; the next cycle.
MiMetaData(p) ==
    /\ At(p, "_run_mi_detection_process", "get_latest_meta_data")
    /\ WorkerStep(p, "acquire", 0, Release(sem), held \ {p}, qlen)

\* _run_ui_process: "if telemetry_database.get_baseline(...) is None:".
UiBaseline(p) ==
    /\ At(p, "_run_ui_process", "get_baseline")
    /\ \E none \in BOOLEAN :
         WorkerStep(p, IF none THEN "wait_baseline" ELSE "main", 0, sem, held, qlen)

\* _run_ui_process: the wait loop's get_baseline(...) is not None: break.
UiWaitBaseline(p) ==
    /\ At(p, "_run_ui_process", "wait_baseline")
    /\ WorkerStep(p, "main", 0, sem, held, qlen)

\* _run_db_cleanup_process: the telemetry database is over db_size and
\* telemetry_db_semaphore.acquire(timeout=1) succeeded.
CleanupAcquire(p) ==
    /\ At(p, "_run_db_cleanup_process", "sleep")
    /\ AcquireOutcome(TRUE, sem) = "acquired"
    /\ WorkerStep(p, "clean_telemetry_db", 0, sem - 1, held \cup {p}, qlen)

\* _run_db_cleanup_process: clean_telemetry_db(); finally release.
CleanupClean(p) ==
    /\ At(p, "_run_db_cleanup_process", "clean_telemetry_db")
    /\ WorkerStep(p, "sleep", 0, Release(sem), held \ {p}, qlen)

\* Process.run: the target raised; a finally or with block the worker is in
\* releases the semaphore; the exception is sent through the pipe.
WorkerFails(p) ==
    /\ alive(p)
    /\ WorkerStep(p, "failed", 0,
                  IF p \in held THEN Release(sem) ELSE sem, held \ {p},
                  IF p[2] = "_run_sensor_process" THEN 0 ELSE qlen)

Worker(p) ==
    \/ SensorPoll(p) \/ SensorAcquire(p) \/ SensorWrite(p) \/ CollectionThreadPut(p)
    \/ IotSweep(p) \/ IotGetLogs(p) \/ IotGetLog(p) \/ IotAcquire(p) \/ IotUpdate(p)
    \/ MiBaseline(p) \/ MiAcquire(p) \/ MiLastLog(p) \/ MiMetaData(p)
    \/ UiBaseline(p) \/ UiWaitBaseline(p)
    \/ CleanupAcquire(p) \/ CleanupClean(p)
    \/ WorkerFails(p)

Next ==
    \/ StartProcess
    \/ MonitorDetect
    \/ Interrupt
    \/ CleanupRelease
    \/ KillProcess
    \/ \E p \in Proc : Worker(p)

Spec == Init /\ [][Next]_vars


(***************************************************************************)
(* Sensor module: src/sensorModule, src/constants.py                       *)
(* A payload is a sequence of tokens: the value separator, the payload     *)
(* separator, or a character of a value.                                   *)
(***************************************************************************)
MaxFrames == 4          \* frames the collection thread reads
MaxBufferSize == 2      \* buffer_size ranges over 1..MaxBufferSize

VALUE_SEPARATOR == "\\t"
PAYLOAD_SEPARATOR == "\\n\\r"
NB_OF_TELEMETRY_VALUES == 35

\* A frame of n value separators (n + 1 values), with or without the payload
\* separator at its end.
Frame(n, psep) ==
    [i \in 1..(2 * n + 1) |-> IF i % 2 = 0 THEN VALUE_SEPARATOR ELSE "7"]
        \o (IF psep THEN <<PAYLOAD_SEPARATOR>> ELSE <<>>)

\* What SerialCommunicator.read_until hands to _process_payload: nothing, or a
\* frame one separator short, complete, or one separator long.
Payloads ==
    {<<>>}
    \cup {Frame(n, FALSE) : n \in {0, NB_OF_TELEMETRY_VALUES - 1,
                                   NB_OF_TELEMETRY_VALUES, NB_OF_TELEMETRY_VALUES + 1}}
    \cup {Frame(NB_OF_TELEMETRY_VALUES, TRUE)}

\* str.count(VALUE_SEPARATOR)
CountSeparators(payload) ==
    Cardinality({i \in DOMAIN payload : payload[i] = VALUE_SEPARATOR})

\* Mutant of _is_payload_complete: at least, instead of exactly, 35 separators.
_is_payload_complete_at_least(payload) ==
    CountSeparators(payload) >= NB_OF_TELEMETRY_VALUES

\* SensorInterface._is_payload_complete
_is_payload_complete(payload) ==
    CountSeparators(payload) = NB_OF_TELEMETRY_VALUES

\* PayloadProcessor._remove_separator: payload[:payload.rfind(PAYLOAD_SEPARATOR)]
_remove_separator(payload) ==
    LET at == {i \in DOMAIN payload : payload[i] = PAYLOAD_SEPARATOR}
    IN IF at = {} THEN payload
       ELSE SubSeq(payload, 1, (CHOOSE i \in at : \A j \in at : j <= i) - 1)

\* PayloadProcessor._split_values: payload.split(VALUE_SEPARATOR)
RECURSIVE _split_values(_)
_split_values(payload) ==
    LET at == {i \in DOMAIN payload : payload[i] = VALUE_SEPARATOR}
    IN IF at = {} THEN <<payload>>
       ELSE LET i == CHOOSE k \in at : \A j \in at : k <= j
            IN <<SubSeq(payload, 1, i - 1)>>
                   \o _split_values(SubSeq(payload, i + 1, Len(payload)))

\* PayloadProcessor._add_timestamp
_add_timestamp(values) == Append(values, <<"timestamp">>)

\* PayloadProcessor.process_payload (its ValueError on an empty payload cannot
\* happen behind _process_payload's "if payload and ...").
process_payload(payload) ==
    _add_timestamp(_split_values(_remove_separator(payload)))

\* Mutant of deque_put: append on the side get pops from.
deque_put_right(queue, data) == Append(queue, data)

\* DataQueue.put: self._queue.appendleft(data)
deque_put(queue, data) == <<data>> \o queue

\* DataQueue.get: self._queue.pop() takes the rightmost element.
deque_pop_item(queue) == queue[Len(queue)]
deque_pop_rest(queue) == SubSeq(queue, 1, Len(queue) - 1)

\* Mutant of has_room: the capacity test off by one.
has_room_le(size, buffer_size) == size <= buffer_size

\* _process_payload: "if self._queue.size() < self._buffer_size".
has_room(size, buffer_size) == size < buffer_size

OrchIdle ==
    /\ OrchInit
    /\ process_restart_count = 0

QueueInit ==
    /\ q_queue = <<>>
    /\ q_buffer_size \in 1..MaxBufferSize
    /\ q_cpc = "idle"
    /\ q_payload = <<>>
    /\ q_nput = 0
    /\ q_got = <<>>
    /\ q_cleared = FALSE
    /\ q_last = "none"

OrchUnchanged == UNCHANGED orch_vars

\* _process_payload up to the capacity test: data is available, the payload is
\* read; an empty or incomplete one is discarded, a complete one is parsed.
CollectorRead ==
    /\ q_cpc = "idle"
    /\ q_nput < MaxFrames
    /\ \E payload \in Payloads :
         IF payload # <<>> /\ _is_payload_complete(payload)
           THEN /\ q_payload' = payload
                /\ q_cpc' = "size"
                /\ UNCHANGED q_last
           ELSE /\ q_payload' = <<>>
                /\ q_cpc' = "idle"
                /\ q_last' = "discarded"
    /\ UNCHANGED <<q_queue, q_buffer_size, q_nput, q_got, q_cleared>>
    /\ OrchUnchanged /\ DbUnchanged /\ GatewayUnchanged /\ IotUnchanged
    /\ EventUnchanged /\ UnitsUnchanged

\* _process_payload: self._queue.size() < self._buffer_size, under the lock.
CollectorSize ==
    /\ q_cpc = "size"
    /\ IF has_room(Len(q_queue), q_buffer_size)
         THEN /\ q_cpc' = "put"
              /\ UNCHANGED <<q_payload, q_last>>
         ELSE /\ q_cpc' = "idle"
              /\ q_payload' = <<>>
              /\ q_last' = "dropped"
    /\ UNCHANGED <<q_queue, q_buffer_size, q_nput, q_got, q_cleared>>
    /\ OrchUnchanged /\ DbUnchanged /\ GatewayUnchanged /\ IotUnchanged
    /\ EventUnchanged /\ UnitsUnchanged

\* DataQueue.put(processed_data), under the lock.
CollectorPut ==
    /\ q_cpc = "put"
    /\ q_queue' = deque_put(q_queue, [id |-> q_nput + 1,
                                      data |-> process_payload(q_payload)])
    /\ q_nput' = q_nput + 1
    /\ q_cpc' = "idle"
    /\ q_payload' = <<>>
    /\ q_last' = "enqueued"
    /\ UNCHANGED <<q_buffer_size, q_got, q_cleared>>
    /\ OrchUnchanged /\ DbUnchanged /\ GatewayUnchanged /\ IotUnchanged
    /\ EventUnchanged /\ UnitsUnchanged

\* DataQueue.get with an item available (on an empty queue get waits, and
\* get_sample's timeout makes it return None with the queue unchanged).
QueueGet ==
    /\ q_queue # <<>>
    /\ q_got' = Append(q_got, deque_pop_item(q_queue).id)
    /\ q_queue' = deque_pop_rest(q_queue)
    /\ UNCHANGED <<q_buffer_size, q_cpc, q_payload, q_nput, q_cleared, q_last>>
    /\ OrchUnchanged /\ DbUnchanged /\ GatewayUnchanged /\ IotUnchanged
    /\ EventUnchanged /\ UnitsUnchanged

\* SensorInterface.flush_samples: DataQueue.clear, under the lock.
QueueClear ==
    /\ q_queue # <<>>
    /\ q_queue' = <<>>
    /\ q_cleared' = TRUE
    /\ UNCHANGED <<q_buffer_size, q_cpc, q_payload, q_nput, q_got, q_last>>
    /\ OrchUnchanged /\ DbUnchanged /\ GatewayUnchanged /\ IotUnchanged
    /\ EventUnchanged /\ UnitsUnchanged

QueueNext ==
    \/ CollectorRead
    \/ CollectorSize
    \/ CollectorPut
    \/ QueueGet
    \/ QueueClear

InitQueue ==
    OrchIdle /\ QueueInit /\ DbIdle /\ GatewayIdle /\ IotIdle /\ EventIdle /\ UnitsIdle

SpecQueue == InitQueue /\ [][QueueNext]_vars

(***************************************************************************)
(* Telemetry Database: src/telemetryDatabase/database.py                   *)
(* db_log and db_telemetry hold the committed rows; a call's session is    *)
(* the LET of its action, committed or rolled back as a whole.             *)
(***************************************************************************)
MaxNewLogs == 2         \* logs written beyond the retention floor

\* clean_telemetry_db: "TelemetryLog.id > 30".
RETENTION_FLOOR == 30

\* The samples handed to write: None, a 37-field sample of numbers, one whose
\* values float() rejects, one too short for payload[CREATED_AT_INDEX-1].
WritePayloads == {"None", "valid", "non_numeric", "short"}

\* The log ids handed to update_log_sent_mqtt.
UpdateIds ==
    {1, RETENTION_FLOOR} \cup (RETENTION_FLOOR + 1 .. RETENTION_FLOOR + MaxNewLogs)

MaxOf(S) == IF S = {} THEN 0 ELSE CHOOSE x \in S : \A y \in S : y <= x

\* The id an INTEGER PRIMARY KEY column gives the next row: one more than the
\* largest id in the table.
NextId(ids) == MaxOf(ids) + 1

\* write: the TelemetryLog row added and flushed.
write_log(log) == (NextId(DOMAIN log) :> FALSE) @@ log

\* write: the Telemetry rows of the new log, "for i in range(NB_OF_TELEMETRY_VALUES)"
\* with telemetry_type_id = i + 1.
write_telemetry_values(telemetry, log_id) ==
    LET base == MaxOf({t[1] : t \in telemetry})
    IN telemetry \cup {<<base + i + 1, log_id, i + 1>> :
                          i \in 0..(NB_OF_TELEMETRY_VALUES - 1)}

\* Whether Telemetry(telemetry_log_id=..., telemetry_type_id=..., value=...)
\* builds a row. models.py declares __init__(self, log_id, type_id, value), so
\* with the models as they stand the call raises TypeError (FALSE); TRUE is a
\* constructor that takes the column names. Both are covered.
TelemetryCtorAccepts == BOOLEAN

\* Mutant of write_outcome: a write failing after the flush keeps the log row.
write_outcome_no_rollback(payload, ctor_ok) ==
    IF payload = "None" THEN "noop"
    ELSE IF payload = "short" THEN "rollback"
    ELSE IF payload = "non_numeric" \/ ~ctor_ok THEN "commit_log_only"
    ELSE "commit"

\* write: return on None; an exception (IndexError on a short sample before the
\* log is added; TypeError from the constructor or ValueError from float()
\* after the flush) rolls the session back and is re-raised; otherwise the
\* session commits.
write_outcome(payload, ctor_ok) ==
    IF payload = "None" THEN "noop"
    ELSE IF payload \in {"short", "non_numeric"} \/ ~ctor_ok THEN "rollback"
    ELSE "commit"

\* Mutant of clean_log_ids: the value rows are selected but for no log.
clean_log_ids_none(log) == {}

\* clean_telemetry_db: the ids of the logs with sent_mqtt_payload and id > 30.
clean_log_ids(log) == {id \in DOMAIN log : log[id] /\ id > RETENTION_FLOOR}

\* clean_telemetry_db: the bulk delete of the Telemetry rows of log_ids.
clean_telemetry(telemetry, log_ids) == {t \in telemetry : t[2] \notin log_ids}

\* Mutant of clean_logs: every sent log is deleted, whatever its id.
clean_logs_all_sent(log) ==
    [id \in {i \in DOMAIN log : ~log[i]} |-> log[id]]

\* clean_telemetry_db: the bulk delete of the logs with sent_mqtt_payload and
\* id > 30.
clean_logs(log) ==
    [id \in {i \in DOMAIN log : ~(log[i] /\ i > RETENTION_FLOOR)} |-> log[id]]

DbInit ==
    /\ db_log = <<>>
    /\ db_telemetry = {}
    /\ db_last = <<"none", "none">>

\* Database.write(payload)
DbWrite ==
    /\ NextId(DOMAIN db_log) <= RETENTION_FLOOR + MaxNewLogs
    /\ \E payload \in WritePayloads, ctor_ok \in TelemetryCtorAccepts :
         LET o == write_outcome(payload, ctor_ok)
             log == write_log(db_log)
             log_id == NextId(DOMAIN db_log)
         IN /\ db_last' = <<"write", o>>
            /\ CASE o = "commit" ->
                      /\ db_log' = log
                      /\ db_telemetry' = write_telemetry_values(db_telemetry, log_id)
                 [] o = "commit_log_only" ->
                      /\ db_log' = log
                      /\ UNCHANGED db_telemetry
                 [] OTHER -> UNCHANGED <<db_log, db_telemetry>>
    /\ OrchUnchanged /\ QueueUnchanged /\ GatewayUnchanged /\ IotUnchanged
    /\ EventUnchanged /\ UnitsUnchanged

\* Database.update_log_sent_mqtt(log_id, mqtt_sent): an UPDATE of the log with
\* that id, committed.
DbUpdateLogSentMqtt ==
    /\ \E log_id \in UpdateIds, mqtt_sent \in BOOLEAN :
         /\ db_log' = [id \in DOMAIN db_log |->
                          IF id = log_id THEN mqtt_sent ELSE db_log[id]]
         /\ db_last' = <<"update", IF log_id \in DOMAIN db_log THEN "row" ELSE "no_row">>
    /\ UNCHANGED db_telemetry
    /\ OrchUnchanged /\ QueueUnchanged /\ GatewayUnchanged /\ IotUnchanged
    /\ EventUnchanged /\ UnitsUnchanged

\* Database.clean_telemetry_db(): the two bulk deletes and the commit; a failure
\* before the commit rolls back; the VACUUM that follows the commit may fail.
DbClean ==
    /\ \E o \in {"rollback", "commit", "commit_vacuum_failed"} :
         /\ db_last' = <<"clean", o>>
         /\ IF o = "rollback"
              THEN UNCHANGED <<db_log, db_telemetry>>
              ELSE /\ db_telemetry' = clean_telemetry(db_telemetry, clean_log_ids(db_log))
                   /\ db_log' = clean_logs(db_log)
    /\ OrchUnchanged /\ QueueUnchanged /\ GatewayUnchanged /\ IotUnchanged
    /\ EventUnchanged /\ UnitsUnchanged

DbNext ==
    \/ DbWrite
    \/ DbUpdateLogSentMqtt
    \/ DbClean

InitDB ==
    OrchIdle /\ QueueIdle /\ DbInit /\ GatewayIdle /\ IotIdle /\ EventIdle /\ UnitsIdle

SpecDB == InitDB /\ [][DbNext]_vars

(***************************************************************************)
(* Claims about the orchestrator (checked under Spec).                     *)
(***************************************************************************)

Sensors == {p \in Proc : p[2] = "_run_sensor_process"}
RestartsDone == generation - 1

\* C1: with process_restart_count = N, each of the first N detected worker
\* failures is followed by a worker-group restart (whenever the manager is back
\* at monitoring, as many restarts as detections have happened, at most N), and
\* the (N+1)-th detection ends in ChildProcessError with no further restart.
C1_RestartBudget ==
    /\ RestartsDone <= process_restart_count
    /\ mgr_pc = "monitor" => (RestartsDone = n_detected /\ n_detected <= process_restart_count)
    /\ mgr_mode = "restart" => n_detected <= process_restart_count
    /\ mgr_mode = "fatal" =>
         /\ n_detected = process_restart_count + 1
         /\ RestartsDone = process_restart_count
         /\ mgr_pc \in {"cleanup", "kill", "done"}

\* Witness of C1: the application ended fatally after MaxRestartCount restarts.
C1_Witness ==
    /\ mgr_mode = "fatal"
    /\ mgr_pc = "done"
    /\ process_restart_count = MaxRestartCount
    /\ process_restart_count >= 1
    /\ RestartsDone = process_restart_count

\* C2: once a restart has completed, running_processes is exactly the five
\* workers of the new generation, in start order, and no process of an earlier
\* generation is still running.
C2_FullGroupRestart ==
    (mgr_pc = "monitor" /\ generation > 1) =>
        /\ Len(running_processes) = Len(process_functions)
        /\ \A i \in 1..Len(running_processes) :
             /\ running_processes[i] = <<generation, process_functions[i]>>
             /\ wpc[running_processes[i]] # "none"
        /\ \A p \in Proc : alive(p) => p[1] = generation

\* Witness of C2: a restart completed and its five new workers are running.
C2_Witness ==
    /\ mgr_pc = "monitor"
    /\ generation > 1
    /\ \A fn \in Fns : alive(<<generation, fn>>)
    /\ \A fn \in Fns : wpc[<<1, fn>>] = "dead"

\* C3: the telemetry semaphore is binary: at most one live process is between
\* its acquire and its release, in every reachable state.
C3_SemaphoreBinary == Cardinality(held) <= 1

\* C4: every Telemetry Database call of a worker is executed while that worker
\* holds the semaphore.
C4_AllTelemetryOpsGuarded ==
    \A p \in Proc : wpc[p] \in TelemetryOps => p \in held

\* C5: after a group restart the semaphore can be acquired again: when the
\* restart has completed and no live worker holds the semaphore, its value is
\* positive, so a restarted worker waiting for it gets it.
C5_RestartLeavesSemaphoreAvailable ==
    (mgr_pc = "monitor" /\ generation > 1 /\ held = {}) => sem > 0

\* C6, state part: the sensor worker's acquire never waits.
SensorNeverWaits ==
    \A p \in Sensors :
        wpc[p] = "acquire" => AcquireOutcome(SensorAcquireBlock, sem) # "wait"

\* C6, step part: a sensor worker that finds the semaphore unavailable goes back
\* to its sleep with the queue as it was, and the queue of a sensor process
\* that lives on shrinks only in a step of a sensor worker holding the semaphore.
SensorDrainStep ==
    /\ \A p \in Sensors :
         (wpc[p] = "acquire" /\ sem = 0 /\ wpc'[p] # "acquire" /\ alive(p)')
            => (wpc'[p] = "sleep" /\ qlen' = qlen /\ held' = held /\ sem' = sem)
    /\ (qlen' < qlen /\ \E p \in Sensors : alive(p)')
            => \E p \in Sensors : wpc[p] = "write" /\ p \in held

\* C6: the sensor worker never blocks on the telemetry semaphore; when the
\* semaphore is unavailable it stops draining with every sample still queued; a
\* sample leaves the queue only while the sensor worker holds the semaphore.
C6_SensorNonBlocking == []SensorNeverWaits /\ [][SensorDrainStep]_vars

\* Witness of C6: a drain cycle ended at "break" with samples still queued.
C6_Witness ==
    /\ drain_broke
    /\ qlen > 0
    /\ \E p \in Sensors : wpc[p] = "sleep"

(***************************************************************************)
(* Claims about the sensor module (checked under SpecQueue).               *)
(***************************************************************************)

RECURSIVE Reverse(_)
Reverse(seq) == IF seq = <<>> THEN <<>> ELSE Append(Reverse(Tail(seq)), Head(seq))

\* The ids still queued, next to be returned first.
PendingIds == Reverse([i \in DOMAIN q_queue |-> q_queue[i].id])

\* C7: get returns items in the order they were put, each at most once, and
\* none is lost unless clear was called: the ids returned so far followed by
\* the ids still queued are strictly increasing, and without a clear they are
\* exactly 1..q_nput.
C7_QueueFifo ==
    LET all == q_got \o PendingIds
    IN /\ \A i \in DOMAIN all : all[i] \in 1..q_nput
       /\ \A i, j \in DOMAIN all : i < j => all[i] < all[j]
       /\ ~q_cleared => all = [i \in 1..q_nput |-> i]

\* Witness of C7: two items returned while a later one is queued, no clear.
C7_Witness ==
    /\ Len(q_got) >= 2
    /\ q_queue # <<>>
    /\ ~q_cleared

\* C8: the queue never holds more samples than the buffer capacity; a parsed
\* frame waiting to be put has found the queue below capacity.
C8_QueueBounded ==
    /\ Len(q_queue) <= q_buffer_size
    /\ q_cpc = "put" => Len(q_queue) < q_buffer_size

\* Witness of C8: a frame arrived at capacity and was dropped.
C8_Witness ==
    /\ q_last = "dropped"
    /\ Len(q_queue) = q_buffer_size

\* C9: a step that enqueues a frame enqueues the parse of a payload with
\* exactly 35 value separators; a discarded payload leaves the queue unchanged.
C9_OnlyCompleteFramesEnqueued ==
    [][/\ Len(q_queue') > Len(q_queue) =>
            /\ CountSeparators(q_payload) = NB_OF_TELEMETRY_VALUES
            /\ q_queue' = <<[id |-> q_nput + 1, data |-> process_payload(q_payload)]>>
                              \o q_queue
       /\ (q_last' = "discarded" /\ q_last # "discarded") => q_queue' = q_queue
      ]_vars

\* Witness of C9: a frame was discarded after another had been enqueued.
C9_Witness ==
    /\ q_last = "discarded"
    /\ q_queue # <<>>
    /\ q_nput >= 1

(***************************************************************************)
(* Claims about the Telemetry Database (checked under SpecDB).             *)
(***************************************************************************)

\* The Telemetry rows that refer to log id.
ValuesOf(id) == {t \in db_telemetry : t[2] = id}

\* C10: every TelemetryLog row has exactly 35 Telemetry rows, one for each type
\* id 1..35, and every Telemetry row refers to a TelemetryLog row that exists.
C10_ThirtyFiveValuesPerLog ==
    /\ \A id \in DOMAIN db_log :
         /\ Cardinality(ValuesOf(id)) = NB_OF_TELEMETRY_VALUES
         /\ {t[3] : t \in ValuesOf(id)} = 1..NB_OF_TELEMETRY_VALUES
    /\ \A t \in db_telemetry : t[2] \in DOMAIN db_log

\* Witness of C10: a cleanup deleted log 31 and its values and kept log 32.
C10_Witness ==
    /\ db_last = <<"clean", "commit">>
    /\ RETENTION_FLOOR + 1 \notin DOMAIN db_log
    /\ RETENTION_FLOOR + 2 \in DOMAIN db_log
    /\ ValuesOf(RETENTION_FLOOR + 1) = {}

\* The RETENTION_FLOOR most recently inserted logs: those with the greatest ids.
MostRecent(ids) ==
    {i \in ids : Cardinality({j \in ids : j > i}) < RETENTION_FLOOR}

\* C11: no step deletes one of the 30 most recently inserted TelemetryLog rows,
\* whatever its sent_mqtt_payload status.
C11_MostRecentLogsKept ==
    [][\A id \in MostRecent(DOMAIN db_log) : id \in DOMAIN db_log']_vars

\* C12: no step deletes a TelemetryLog row with id <= 30 or any of its value
\* rows, whatever its sent_mqtt_payload status.
C12_FloorLogsKept ==
    [][\A id \in DOMAIN db_log :
          id <= RETENTION_FLOOR =>
              /\ id \in DOMAIN db_log'
              /\ {t \in db_telemetry' : t[2] = id} = ValuesOf(id)]_vars

\* Witness of C12: a committed cleanup deleted log 31 and kept the sent logs 1
\* and 30.
C12_Witness ==
    /\ db_last = <<"clean", "commit">>
    /\ RETENTION_FLOOR + 1 \notin DOMAIN db_log
    /\ RETENTION_FLOOR + 2 \in DOMAIN db_log
    /\ 1 \in DOMAIN db_log /\ db_log[1]
    /\ RETENTION_FLOOR \in DOMAIN db_log /\ db_log[RETENTION_FLOOR]
    /\ Cardinality(ValuesOf(1)) = NB_OF_TELEMETRY_VALUES

\* C14: a clean_telemetry_db call that fails, in the deletes or in the VACUUM,
\* leaves the TelemetryLog and Telemetry rows as they were before the call.
C14_CleanAllOrNothing ==
    [][(db_last' \in {<<"clean", "rollback">>, <<"clean", "commit_vacuum_failed">>})
          => UNCHANGED <<db_log, db_telemetry>>]_vars

(***************************************************************************)
(* IoT gateway: src/iotGateway/client.py                                   *)
(* The broker, the network link and the MQTT library are the environment:  *)
(* a handshake succeeds or raises, the transport's publish returns or      *)
(* raises, the link test passes or not, the live session drops and comes   *)
(* back.                                                                   *)
(***************************************************************************)
NB_OF_THINGSBOARD_CONNECT_ATTEMPTS == 10
CREATED_AT_INDEX == 37

\* What the MQTT library's send_telemetry and result.get do.
TransportOutcomes == {"returned", "raised"}

\* The lengths of the payloads handed to send_telemetry: the 35 dictionaries
\* get_unsent_mqtt_log returns, a 37-field sample, a 38-field payload.
PayloadLens == {NB_OF_TELEMETRY_VALUES, CREATED_AT_INDEX, CREATED_AT_INDEX + 1}

\* Mutant of LinkTestPasses: the link test's result is ignored.
LinkTestPasses_ignored(wifi) == TRUE

\* connect: settings.connection.test_wifi_connection()
LinkTestPasses(wifi) == wifi

\* Mutant of ConnectLoopContinues: one attempt more than the constant.
ConnectLoopContinues_one_more(attempt) ==
    attempt <= NB_OF_THINGSBOARD_CONNECT_ATTEMPTS

\* connect: "for attempt in range(self._max_connection_attempts)" has another
\* iteration after attempt iterations.
ConnectLoopContinues(attempt) == attempt < NB_OF_THINGSBOARD_CONNECT_ATTEMPTS

\* MQTTInterface.is_connected
mqtt_is_connected(mqtt_connected, session) == mqtt_connected /\ session

\* MQTTInterface.send_telemetry: None when not connected or when the transport
\* raises, otherwise what result.get returns.
mqtt_send_telemetry(live, transport) ==
    IF ~live THEN "None"
    ELSE IF transport = "raised" THEN "None"
    ELSE "result"

\* Mutant of send_telemetry_result: the length check outside the try.
send_telemetry_result_unguarded(connected, payload_len, live, transport) ==
    IF ~connected THEN "False"
    ELSE IF payload_len <= CREATED_AT_INDEX THEN "raise"
    ELSE IF mqtt_send_telemetry(live, transport) # "None" THEN "True"
    ELSE "False"

\* ThingsBoardClient.send_telemetry: False when not connected; the IndexError
\* of a payload with len(payload) <= CREATED_AT_INDEX is caught and gives
\* False; otherwise "result is not None".
send_telemetry_result(connected, payload_len, live, transport) ==
    IF ~connected THEN "False"
    ELSE IF payload_len <= CREATED_AT_INDEX THEN "False"
    ELSE IF mqtt_send_telemetry(live, transport) # "None" THEN "True"
    ELSE "False"

\* ThingsBoardClient.send_telemetry reached the transport and it published.
telemetry_published(connected, payload_len, live, transport) ==
    /\ connected
    /\ payload_len > CREATED_AT_INDEX
    /\ live
    /\ transport = "returned"

\* ThingsBoardClient.send_predictions
send_predictions_result(connected, live, transport) ==
    IF ~connected THEN "False"
    ELSE IF mqtt_send_telemetry(live, transport) # "None" THEN "True"
    ELSE "False"

predictions_published(connected, live, transport) ==
    connected /\ live /\ transport = "returned"

\* ThingsBoardClient.connect up to its for loop.
ConnectCall ==
    /\ gw_pc = "idle"
    /\ gw_op' = "connect"
    /\ gw_in' = [NoCall EXCEPT !.connected = gw_connected, !.wifi = gw_wifi]
    /\ gw_handshakes' = <<>>
    /\ gw_pub' = FALSE
    /\ IF gw_connected
         THEN gw_pc' = "idle" /\ gw_ret' = "True"
         ELSE IF ~LinkTestPasses(gw_wifi)
                THEN gw_pc' = "idle" /\ gw_ret' = "False"
                ELSE IF ConnectLoopContinues(0)
                       THEN gw_pc' = "handshake" /\ gw_ret' = "pending"
                       ELSE gw_pc' = "idle" /\ gw_ret' = "False"
    /\ UNCHANGED <<gw_connected, gw_mqtt_connected, gw_session, gw_wifi>>

\* ThingsBoardClient.connect, one iteration of its for loop:
\* self._connected = await self._mqtt.connect(); return True, or sleep and go on;
\* after the last iteration return False.
Handshake ==
    /\ gw_pc = "handshake"
    /\ \E ok \in BOOLEAN :
         /\ gw_handshakes' = Append(gw_handshakes, ok)
         /\ gw_mqtt_connected' = ok
         /\ gw_connected' = ok
         /\ gw_session' = (ok \/ gw_session)
         /\ IF ok
              THEN gw_pc' = "idle" /\ gw_ret' = "True"
              ELSE IF ConnectLoopContinues(Len(gw_handshakes) + 1)
                     THEN gw_pc' = "handshake" /\ gw_ret' = "pending"
                     ELSE gw_pc' = "idle" /\ gw_ret' = "False"
    /\ UNCHANGED <<gw_wifi, gw_op, gw_in, gw_pub>>

\* ThingsBoardClient.disconnect and MQTTInterface.disconnect (whose failure is
\* logged and leaves MQTTInterface._connected as it was).
DisconnectCall ==
    /\ gw_pc = "idle"
    /\ gw_op' = "disconnect"
    /\ gw_in' = [NoCall EXCEPT !.connected = gw_connected, !.wifi = gw_wifi]
    /\ gw_ret' = "None"
    /\ gw_pub' = FALSE
    /\ gw_connected' = FALSE
    /\ IF gw_connected /\ gw_mqtt_connected
         THEN \E ok \in BOOLEAN :
                IF ok THEN gw_mqtt_connected' = FALSE /\ gw_session' = FALSE
                      ELSE UNCHANGED <<gw_mqtt_connected, gw_session>>
         ELSE UNCHANGED <<gw_mqtt_connected, gw_session>>
    /\ UNCHANGED <<gw_wifi, gw_pc, gw_handshakes>>

\* ThingsBoardClient.send_telemetry(payload)
SendTelemetryCall(payload_len, transport) ==
    LET live == mqtt_is_connected(gw_mqtt_connected, gw_session)
    IN /\ gw_pc = "idle"
       /\ gw_op' = "send_telemetry"
       /\ gw_in' = [connected |-> gw_connected, wifi |-> gw_wifi, live |-> live,
                    payload_len |-> payload_len, transport |-> transport]
       /\ gw_ret' = send_telemetry_result(gw_connected, payload_len, live, transport)
       /\ gw_pub' = telemetry_published(gw_connected, payload_len, live, transport)
       /\ UNCHANGED <<gw_connected, gw_mqtt_connected, gw_session, gw_wifi, gw_pc,
                      gw_handshakes>>

\* ThingsBoardClient.send_predictions(predictions)
SendPredictionsCall(transport) ==
    LET live == mqtt_is_connected(gw_mqtt_connected, gw_session)
    IN /\ gw_pc = "idle"
       /\ gw_op' = "send_predictions"
       /\ gw_in' = [connected |-> gw_connected, wifi |-> gw_wifi, live |-> live,
                    payload_len |-> 0, transport |-> transport]
       /\ gw_ret' = send_predictions_result(gw_connected, live, transport)
       /\ gw_pub' = predictions_published(gw_connected, live, transport)
       /\ UNCHANGED <<gw_connected, gw_mqtt_connected, gw_session, gw_wifi, gw_pc,
                      gw_handshakes>>

NotGateway ==
    /\ OrchUnchanged /\ QueueUnchanged /\ DbUnchanged /\ IotUnchanged
    /\ EventUnchanged /\ UnitsUnchanged

\* A caller of the gateway calls connect().
GwConnect == ConnectCall /\ NotGateway

\* connect's loop runs.
GwHandshake == Handshake /\ NotGateway

\* A caller calls disconnect().
GwDisconnect == DisconnectCall /\ NotGateway

\* A caller calls send_telemetry(payload).
GwSendTelemetry ==
    /\ \E n \in PayloadLens, t \in TransportOutcomes : SendTelemetryCall(n, t)
    /\ NotGateway

\* A caller calls send_predictions(predictions).
GwSendPredictions ==
    /\ \E t \in TransportOutcomes : SendPredictionsCall(t)
    /\ NotGateway

\* The network link goes up or down.
GwLink ==
    /\ gw_wifi' = ~gw_wifi
    /\ UNCHANGED <<gw_connected, gw_mqtt_connected, gw_session, gw_pc,
                   gw_handshakes, gw_op, gw_in, gw_ret, gw_pub>>
    /\ NotGateway

\* The live MQTT session drops, or the library's loop brings it back.
GwTransport ==
    /\ gw_mqtt_connected
    /\ gw_session' = ~gw_session
    /\ UNCHANGED <<gw_connected, gw_mqtt_connected, gw_wifi, gw_pc,
                   gw_handshakes, gw_op, gw_in, gw_ret, gw_pub>>
    /\ NotGateway

GatewayNext ==
    \/ GwConnect
    \/ GwHandshake
    \/ GwDisconnect
    \/ GwSendTelemetry
    \/ GwSendPredictions
    \/ GwLink
    \/ GwTransport

InitGateway ==
    /\ OrchIdle /\ QueueIdle /\ DbIdle /\ IotIdle /\ EventIdle /\ UnitsIdle
    /\ gw_connected = FALSE
    /\ gw_mqtt_connected = FALSE
    /\ gw_session = FALSE
    /\ gw_wifi \in BOOLEAN
    /\ gw_pc = "idle"
    /\ gw_handshakes = <<>>
    /\ gw_op = "none"
    /\ gw_in = NoCall
    /\ gw_ret = "none"
    /\ gw_pub = FALSE

SpecGateway == InitGateway /\ [][GatewayNext]_vars

(***************************************************************************)
(* Claims about the IoT gateway (checked under SpecGateway).               *)
(***************************************************************************)

\* The connect call that ended last began Disconnected.
ConnectEndedFromDisconnected ==
    gw_op = "connect" /\ gw_pc = "idle" /\ ~gw_in.connected

AllFailed(outcomes) == \A i \in DOMAIN outcomes : ~outcomes[i]

\* C18, state part: a connect call makes at most 10 handshake attempts and is
\* inside its loop only with attempts left; begun Disconnected with the link
\* test passing, it returns True exactly when its last attempt succeeded, every
\* earlier attempt having failed, and False exactly when 10 attempts failed.
ConnectAttemptsBounded ==
    /\ Len(gw_handshakes) <= NB_OF_THINGSBOARD_CONNECT_ATTEMPTS
    /\ gw_pc = "handshake" =>
         /\ Len(gw_handshakes) < NB_OF_THINGSBOARD_CONNECT_ATTEMPTS
         /\ AllFailed(gw_handshakes)
    /\ (ConnectEndedFromDisconnected /\ gw_in.wifi) =>
         /\ gw_ret \in {"True", "False"}
         /\ gw_ret = "True" <=>
              /\ gw_handshakes # <<>>
              /\ gw_handshakes[Len(gw_handshakes)]
              /\ AllFailed(SubSeq(gw_handshakes, 1, Len(gw_handshakes) - 1))
         /\ gw_ret = "False" <=>
              /\ Len(gw_handshakes) = NB_OF_THINGSBOARD_CONNECT_ATTEMPTS
              /\ AllFailed(gw_handshakes)

\* C18, step part: every step inside connect's loop makes one more attempt, so
\* the call ends after at most 10 steps.
ConnectLoopProgress ==
    (gw_pc = "handshake" /\ gw_handshakes' # gw_handshakes) =>
        Len(gw_handshakes') = Len(gw_handshakes) + 1

\* C18: one connect() from Disconnected with the link test passing makes at
\* most 10 handshake attempts, returns success at the first one that succeeds,
\* returns failure if and only if all 10 fail, and terminates.
C18_ConnectBoundedRetry == []ConnectAttemptsBounded /\ [][ConnectLoopProgress]_vars

\* Witness of C18: a connect call returned False after 10 failed attempts.
C18_Witness ==
    /\ ConnectEndedFromDisconnected
    /\ gw_in.wifi
    /\ gw_ret = "False"
    /\ Len(gw_handshakes) = NB_OF_THINGSBOARD_CONNECT_ATTEMPTS

\* C19: a connect call begun Disconnected whose link test fails returns False
\* with no handshake attempt and leaves the gateway Disconnected; no handshake
\* is ever made by a call whose link test failed.
C19_LinkTestFailsFast ==
    /\ (ConnectEndedFromDisconnected /\ ~gw_in.wifi) =>
         /\ gw_ret = "False"
         /\ gw_handshakes = <<>>
         /\ ~gw_connected
    /\ (gw_op = "connect" /\ ~gw_in.connected /\ ~gw_in.wifi) => gw_pc = "idle"

\* Witness of C19: connect failed at the link test after an earlier call had
\* connected and disconnect was called.
C19_Witness ==
    /\ ConnectEndedFromDisconnected
    /\ ~gw_in.wifi
    /\ gw_ret = "False"
    /\ gw_mqtt_connected

SendEnded == gw_op \in {"send_telemetry", "send_predictions"}

MaxIotLogs == 1         \* logs the sensor worker writes beyond the first 30
MaxPredictions == 1     \* Prediction rows the MI worker saves

\* The logs present when the worker starts: written and flagged earlier.
IotInitialLogs == 1..RETENTION_FLOOR

\* Python's "x is None".
is_None(v) == v = "None"

\* Python's truth value of a call's result.
truthy(v) == v = "True"

RECURSIVE SortedSeq(_)
SortedSeq(S) ==
    IF S = {} THEN <<>>
    ELSE LET m == CHOOSE x \in S : \A y \in S : x <= y
         IN <<m>> \o SortedSeq(S \ {m})

\* Database.get_unsent_mqtt_logs: the ids with sent_mqtt_payload == False.
get_unsent_mqtt_logs(log) == SortedSeq({id \in DOMAIN log : ~log[id]})

\* Database.get_unsent_mqtt_log(log_id): one dictionary per Telemetry row of
\* the log, so 35 of them, none for a log that is gone.
get_unsent_mqtt_log_len(log, log_id) ==
    IF log_id \in DOMAIN log THEN NB_OF_TELEMETRY_VALUES ELSE 0

\* miDatabase get_unsent_mqtt_predictions: "ids".
get_unsent_mqtt_predictions(pred) == {id \in DOMAIN pred : ~pred[id]}

\* update_log_sent_mqtt / update_sent_mqtt_predictions: UPDATE ... WHERE id = ...
update_sent(table, id, sent) ==
    [i \in DOMAIN table |-> IF i = id THEN sent ELSE table[i]]

\* Mutant of clean_predictions: every Prediction row is deleted.
clean_predictions_all(pred) == <<>>

\* clean_mi_db: DELETE FROM PREDICTION WHERE sent_mqtt_payload == True.
clean_predictions(pred) ==
    [id \in {i \in DOMAIN pred : ~pred[i]} |-> pred[id]]

IotFrame ==
    /\ UNCHANGED <<mgr_pc, mgr_mode, kill_idx, running_processes, process_fail_count,
                   process_restart_count, generation, wpc, wrem, held, qlen,
                   n_detected, drain_broke>>
    /\ QueueUnchanged
    /\ UNCHANGED <<db_telemetry, db_last>>
    /\ EventUnchanged /\ UnitsUnchanged

\* The IoT worker's own variables after a step.
IotStep(pc, list, batch, pub, ppub, failed) ==
    /\ iot_pc' = pc
    /\ iot_list' = list
    /\ iot_batch' = batch
    /\ iot_published' = pub
    /\ iot_pred_published' = ppub
    /\ iot_failed_send' = failed
    /\ UNCHANGED <<mi_pred, clean_pc, clean_ids>>
    /\ IotFrame

\* The caller has used the result of its gateway call: the record of the
\* call is dropped, the client's own fields stay.
GatewayReturned ==
    /\ gw_op' = "none"
    /\ gw_in' = NoCall
    /\ gw_ret' = "none"
    /\ gw_pub' = FALSE
    /\ gw_handshakes' = <<>>
    /\ UNCHANGED <<gw_connected, gw_mqtt_connected, gw_session, gw_wifi, gw_pc>>

IotGoto(pc) ==
    IotStep(pc, iot_list, iot_batch, iot_published, iot_pred_published,
            iot_failed_send)

\* _run_iot_process: sleep(0.5); tb_mqtt.connect() is called.
IotConnect ==
    /\ iot_pc = "sleep"
    /\ ConnectCall
    /\ IotGoto("connecting")
    /\ UNCHANGED <<sem, db_log>>

\* "if not tb_mqtt.connect(): continue".
IotConnected ==
    /\ iot_pc = "connecting"
    /\ gw_pc = "idle"
    /\ IotGoto(IF truthy(gw_ret) THEN "get_unsent_mqtt_logs" ELSE "sleep")
    /\ GatewayReturned
    /\ UNCHANGED <<sem, db_log>>

\* mqtt_list = telemetry_database.get_unsent_mqtt_logs()
IotGetUnsentLogs ==
    /\ iot_pc = "get_unsent_mqtt_logs"
    /\ IotStep("for", get_unsent_mqtt_logs(db_log), iot_batch, iot_published,
               iot_pred_published, iot_failed_send)
    /\ GatewayUnchanged
    /\ UNCHANGED <<sem, db_log>>

\* for log_id in mqtt_list: payload = get_unsent_mqtt_log(log_id);
\* "if tb_mqtt.sendTelemetryPayload(payload) is None: break".
IotSendTelemetry ==
    /\ iot_pc = "for"
    /\ iot_list # <<>>
    /\ LET log_id == Head(iot_list)
       IN /\ \E t \in TransportOutcomes :
               SendTelemetryCall(get_unsent_mqtt_log_len(db_log, log_id), t)
          /\ IotStep(IF is_None(gw_ret') THEN "get_unsent_mqtt_predictions"
                                         ELSE "acquire",
                     iot_list, iot_batch,
                     IF gw_pub' THEN iot_published \cup {log_id} ELSE iot_published,
                     iot_pred_published,
                     IF truthy(gw_ret') THEN iot_failed_send \ {<<"log", log_id>>}
                                        ELSE iot_failed_send \cup {<<"log", log_id>>})
    /\ UNCHANGED <<sem, db_log>>

\* The for loop is done.
IotForDone ==
    /\ iot_pc = "for"
    /\ iot_list = <<>>
    /\ IotGoto("get_unsent_mqtt_predictions")
    /\ GatewayUnchanged
    /\ UNCHANGED <<sem, db_log>>

\* "if telemetry_db_semaphore.acquire(block=True):" and, inside the try,
\* tb_mqtt.connect() is called.
IotAcquireSemaphore ==
    /\ iot_pc = "acquire"
    /\ AcquireOutcome(TRUE, sem) = "acquired"
    /\ sem' = sem - 1
    /\ ConnectCall
    /\ IotGoto("update_log_sent_mqtt")
    /\ UNCHANGED db_log

\* "if tb_mqtt.connect(): telemetry_database.update_log_sent_mqtt(log_id, True)",
\* "finally: telemetry_db_semaphore.release()", the next iteration.
IotUpdateLogSent ==
    /\ iot_pc = "update_log_sent_mqtt"
    /\ gw_pc = "idle"
    /\ db_log' = IF truthy(gw_ret) THEN update_sent(db_log, Head(iot_list), TRUE)
                                   ELSE db_log
    /\ sem' = Release(sem)
    /\ IotStep("for", Tail(iot_list), iot_batch, iot_published,
               iot_pred_published, iot_failed_send)
    /\ GatewayReturned

\* predictions = mi_database.get_unsent_mqtt_predictions()
IotGetUnsentPredictions ==
    /\ iot_pc = "get_unsent_mqtt_predictions"
    /\ IotStep("send_predictions", <<>>, get_unsent_mqtt_predictions(mi_pred),
               iot_published, iot_pred_published, iot_failed_send)
    /\ GatewayUnchanged
    /\ UNCHANGED <<sem, db_log>>

\* "if tb_mqtt.sendPredictionPayload(predictions["logs"]) is not None:".
IotSendPredictions ==
    /\ iot_pc = "send_predictions"
    /\ \E t \in TransportOutcomes : SendPredictionsCall(t)
    /\ LET flip == ~is_None(gw_ret') /\ iot_batch # {}
           tagged == {<<"pred", id>> : id \in iot_batch}
       IN IotStep(IF flip THEN "update_sent_mqtt_predictions" ELSE "sleep",
                  iot_list,
                  IF flip THEN iot_batch ELSE {},
                  iot_published,
                  IF gw_pub' THEN iot_pred_published \cup iot_batch
                             ELSE iot_pred_published,
                  IF truthy(gw_ret') THEN iot_failed_send \ tagged
                                     ELSE iot_failed_send \cup tagged)
    /\ UNCHANGED <<sem, db_log>>

\* "for prediction_id in predictions["ids"]:
\*      mi_database.update_sent_mqtt_predictions(prediction_id, True)", one id.
IotUpdatePredictionSent ==
    /\ iot_pc = "update_sent_mqtt_predictions"
    /\ LET id == CHOOSE x \in iot_batch : \A y \in iot_batch : x <= y
       IN /\ mi_pred' = update_sent(mi_pred, id, TRUE)
          /\ iot_batch' = iot_batch \ {id}
          /\ iot_pc' = IF iot_batch = {id} THEN "sleep"
                                           ELSE "update_sent_mqtt_predictions"
    /\ UNCHANGED <<iot_list, iot_published, iot_pred_published, iot_failed_send,
                   clean_pc, clean_ids>>
    /\ IotFrame
    /\ GatewayReturned
    /\ UNCHANGED <<sem, db_log>>

\* As written, tb_mqtt.sendTelemetryPayload / sendPredictionPayload raise
\* AttributeError: the worker ends and Process.run reports the exception.
IotFails ==
    /\ \/ iot_pc = "for" /\ iot_list # <<>>
       \/ iot_pc = "send_predictions"
    /\ IotStep("failed", <<>>, {}, iot_published, iot_pred_published,
               iot_failed_send)
    /\ GatewayUnchanged
    /\ UNCHANGED <<sem, db_log>>

\* The group restart starts a new IoT process, with a new gateway client.
IotRestarted ==
    /\ iot_pc = "failed"
    /\ IotGoto("sleep")
    /\ gw_connected' = FALSE
    /\ gw_mqtt_connected' = FALSE
    /\ gw_session' = FALSE
    /\ gw_pc' = "idle"
    /\ gw_handshakes' = <<>>
    /\ gw_op' = "none"
    /\ gw_in' = NoCall
    /\ gw_ret' = "none"
    /\ gw_pub' = FALSE
    /\ UNCHANGED gw_wifi
    /\ UNCHANGED <<sem, db_log>>

IotWorkerVarsUnchanged ==
    UNCHANGED <<iot_pc, iot_list, iot_batch, iot_published, iot_pred_published,
                iot_failed_send>>

\* The sensor worker writes a sample: acquire(block=False), write, release.
IotSensorWrites ==
    /\ AcquireOutcome(FALSE, sem) = "acquired"
    /\ NextId(DOMAIN db_log) <= RETENTION_FLOOR + MaxIotLogs
    /\ db_log' = write_log(db_log)
    /\ iot_published' = iot_published \ {NextId(DOMAIN db_log)}
    /\ iot_failed_send' = iot_failed_send \ {<<"log", NextId(DOMAIN db_log)>>}
    /\ UNCHANGED <<iot_pc, iot_list, iot_batch, iot_pred_published,
                   mi_pred, clean_pc, clean_ids, sem>>
    /\ IotFrame
    /\ GatewayUnchanged

\* The MI worker saves a prediction: a new PREDICTION row, not sent.
IotPredictionSaved ==
    /\ NextId(DOMAIN mi_pred) <= MaxPredictions
    /\ mi_pred' = (NextId(DOMAIN mi_pred) :> FALSE) @@ mi_pred
    /\ iot_pred_published' = iot_pred_published \ {NextId(DOMAIN mi_pred)}
    /\ iot_failed_send' = iot_failed_send \ {<<"pred", NextId(DOMAIN mi_pred)>>}
    /\ UNCHANGED <<iot_pc, iot_list, iot_batch, iot_published,
                   clean_pc, clean_ids, sem, db_log>>
    /\ IotFrame
    /\ GatewayUnchanged

\* _run_db_cleanup_process: mi_database.clean_mi_db().
CleanupMiDb ==
    /\ clean_pc = "sleep"
    /\ mi_pred' = clean_predictions(mi_pred)
    /\ clean_pc' = "mi_cleaned"
    /\ UNCHANGED <<clean_ids, sem, db_log>>
    /\ IotWorkerVarsUnchanged
    /\ IotFrame
    /\ GatewayUnchanged

\* _run_db_cleanup_process: acquire(timeout=1) succeeded; clean_telemetry_db
\* has run its query for log_ids.
CleanupSelect ==
    /\ clean_pc \in {"sleep", "mi_cleaned"}
    /\ AcquireOutcome(TRUE, sem) = "acquired"
    /\ sem' = sem - 1
    /\ clean_ids' = clean_log_ids(db_log)
    /\ clean_pc' = "delete"
    /\ UNCHANGED <<mi_pred, db_log>>
    /\ IotWorkerVarsUnchanged
    /\ IotFrame
    /\ GatewayUnchanged

\* clean_telemetry_db: the two bulk deletes and the commit, or the rollback;
\* finally release.
CleanupDelete ==
    /\ clean_pc = "delete"
    /\ \E committed \in BOOLEAN :
         db_log' = IF committed THEN clean_logs(db_log) ELSE db_log
    /\ sem' = Release(sem)
    /\ clean_ids' = {}
    /\ clean_pc' = "sleep"
    /\ UNCHANGED mi_pred
    /\ IotWorkerVarsUnchanged
    /\ IotFrame
    /\ GatewayUnchanged

IotWorkerNext ==
    \/ IotConnect
    \/ GwHandshake
    \/ IotConnected
    \/ IotGetUnsentLogs
    \/ IotSendTelemetry
    \/ IotForDone
    \/ IotAcquireSemaphore
    \/ IotUpdateLogSent
    \/ IotGetUnsentPredictions
    \/ IotSendPredictions
    \/ IotUpdatePredictionSent

IotNext ==
    \/ IotWorkerNext
    \/ IotFails
    \/ IotRestarted
    \/ IotSensorWrites
    \/ IotPredictionSaved
    \/ CleanupMiDb
    \/ CleanupSelect
    \/ CleanupDelete
    \/ GwLink
    \/ GwTransport

\* The orchestrator is not modelled here; the semaphore has its initial value,
\* or the value 2 that cleanup_processes' release leaves after a restart.
InitIot ==
    /\ mgr_pc = "start"
    /\ mgr_mode = "run"
    /\ kill_idx = 0
    /\ running_processes = <<>>
    /\ process_fail_count = 0
    /\ process_restart_count = 0
    /\ generation = 1
    /\ wpc = [p \in Proc |-> "none"]
    /\ wrem = [p \in Proc |-> 0]
    /\ sem \in {SemaphoreInitial, Release(SemaphoreInitial)}
    /\ held = {}
    /\ qlen = 0
    /\ n_detected = 0
    /\ drain_broke = FALSE
    /\ QueueIdle
    /\ EventIdle /\ UnitsIdle
    /\ db_log = [id \in IotInitialLogs |-> TRUE]
    /\ db_telemetry = {}
    /\ db_last = <<"none", "none">>
    /\ gw_connected = FALSE
    /\ gw_mqtt_connected = FALSE
    /\ gw_session = FALSE
    /\ gw_wifi \in BOOLEAN
    /\ gw_pc = "idle"
    /\ gw_handshakes = <<>>
    /\ gw_op = "none"
    /\ gw_in = NoCall
    /\ gw_ret = "none"
    /\ gw_pub = FALSE
    /\ iot_pc = "sleep"
    /\ iot_list = <<>>
    /\ iot_batch = {}
    /\ iot_published = {}
    /\ iot_pred_published = {}
    /\ iot_failed_send = {}
    /\ mi_pred = <<>>
    /\ clean_pc = "sleep"
    /\ clean_ids = {}

SpecIot == InitIot /\ [][IotNext]_vars

\* The worker's steps are taken whenever they can be again and again (its
\* loop never stops by itself, and its blocking acquire gets the semaphore
\* that the cleanup worker gives back before it sleeps), a worker that ended
\* is started again by the group restart, and a cleanup that began ends.
SpecIotLive ==
    /\ InitIot
    /\ [][IotNext]_vars
    /\ SF_vars(IotWorkerNext)
    /\ WF_vars(IotRestarted)
    /\ WF_vars(CleanupDelete)

(***************************************************************************)
(* Claims about the IoT worker and the cleanup worker (SpecIot).           *)
(***************************************************************************)

\* The logs the sensor worker writes while the IoT worker runs.
NewLogIds == (RETENTION_FLOOR + 1)..(RETENTION_FLOOR + MaxIotLogs)

\* C13: no step deletes a TelemetryLog or Prediction row whose flag is false,
\* whatever the IoT worker is doing, and a clean_mi_db run leaves exactly the
\* unsent Prediction rows, unchanged.
C13_CleanupDeletesOnlySent ==
    [][/\ \A id \in DOMAIN db_log : ~db_log[id] => id \in DOMAIN db_log'
       /\ \A id \in DOMAIN mi_pred : ~mi_pred[id] => id \in DOMAIN mi_pred'
       /\ (clean_pc = "sleep" /\ clean_pc' = "mi_cleaned") =>
             /\ DOMAIN mi_pred' = {id \in DOMAIN mi_pred : ~mi_pred[id]}
             /\ \A id \in DOMAIN mi_pred' : ~mi_pred'[id]
      ]_vars

\* Witness of C13: the cleanup worker deleted a flagged log and a flagged
\* prediction while the IoT worker is inside a sweep.
C13_Witness ==
    /\ <<"log", RETENTION_FLOOR + 1>> \in iot_failed_send
    /\ RETENTION_FLOOR + 1 \notin DOMAIN db_log
    /\ 1 \in iot_pred_published
    /\ 1 \notin DOMAIN mi_pred
    /\ iot_pc \notin {"sleep", "failed"}

NetworkUp ==
    /\ gw_wifi
    /\ gw_mqtt_connected => gw_session
    /\ \A i \in DOMAIN gw_handshakes : gw_handshakes[i]
    /\ gw_in.transport # "raised"

\* C17: if from some point on the network is up, every log the sensor worker
\* writes is eventually published and marked sent.
C17_EventuallyDelivered ==
    <>[]NetworkUp =>
        \A id \in NewLogIds :
            (id \in DOMAIN db_log /\ ~db_log[id])
                ~> (id \in DOMAIN db_log /\ db_log[id] /\ id \in iot_published)


(***************************************************************************)
(* MI Database: src/miDatabase/database.py                                 *)
(* mi_analyte, mi_event and mi_prediction hold the committed rows; a       *)
(* call's session is the LET of its action, committed or rolled back as a  *)
(* whole.  Every call may meet a database failure (db_ok = FALSE), which   *)
(* the method's except clause handles.  Numbers that are floats in the     *)
(* program are integers here; an optional argument is <<>> for None and    *)
(* <<v>> for the value v, an optional state name is "None" or the name.    *)
(***************************************************************************)
Range(f) == {f[i] : i \in DOMAIN f}

\* A list has no element twice.
Distinct(seq) == \A i, j \in DOMAIN seq : seq[i] = seq[j] => i = j

\* The events the configuration asks for: one per supported analyte when
\* 'analyte_based' is a supported event type, and 'tobacco' when it is one.
ConfiguredEvents(config) ==
    (IF "analyte_based" \in config.supported_event_types
       THEN Range(config.supported_analytes) ELSE {})
    \cup (IF "tobacco" \in config.supported_event_types THEN {"tobacco"} ELSE {})

\* _add_analytes: one Analyte row per name of the list, no row for the others.
add_analytes_first_only(analytes) ==
    IF analytes = <<>> THEN {} ELSE {analytes[1]}

add_analytes(analytes) == Range(analytes)

\* populate_supported_analytes: <<the table afterwards, the value returned>>.
\* Analyte.name is unique: a list that names an analyte twice fails at commit.
populate_supported_analytes(table, config, db_ok) ==
    IF table # {} THEN <<table, "False">>
    ELSE IF ~db_ok \/ ~Distinct(config.supported_analytes)
           THEN <<table, "False">>
           ELSE <<add_analytes(config.supported_analytes), "True">>

\* _add_event as _populate_analyte_events and _populate_tobacco_event call it.
SeededEvent(config, now) ==
    [last_state |-> config.default_state, date |-> now, value |-> 0,
     temp |-> 0, humidity |-> 0]

\* populate_events: <<the table afterwards, the value returned>>.
\* Event.event_name is unique: an analyte named 'tobacco', or an analyte
\* named twice, fails at commit.
populate_events(table, config, now, db_ok) ==
    LET analyte_based == "analyte_based" \in config.supported_event_types
        tobacco == "tobacco" \in config.supported_event_types
        clash == \/ analyte_based /\ ~Distinct(config.supported_analytes)
                 \/ analyte_based /\ tobacco
                      /\ "tobacco" \in Range(config.supported_analytes)
    IN IF DOMAIN table # {} THEN <<table, "False">>
       ELSE IF ~db_ok \/ clash THEN <<table, "False">>
       ELSE <<[n \in ConfiguredEvents(config) |-> SeededEvent(config, now)],
              "True">>

\* EventConfig.__post_init__: "ok", or the ConfigurationError it raises.
EventConfig_post_init(config) ==
    IF config.supported_states = <<>> THEN "ConfigurationError"
    ELSE IF config.event_delay < 0 THEN "ConfigurationError"
    ELSE IF config.thresholds = <<>> THEN "ConfigurationError"
    ELSE IF "green" \notin Range(config.supported_states) THEN "ConfigurationError"
    ELSE IF config.default_state \notin Range(config.supported_states)
           THEN "ConfigurationError"
    ELSE "ok"

\* EventEngine.__init__ builds EventConfig(**config['event_config']).  The
\* document's event_config also carries supported_event_types, which
\* populate_events reads and EventConfig does not accept (TypeError, wrapped
\* into ConfigurationError): with the document as Database needs it the
\* construction raises; with the keys EventConfig knows it validates.
EventEngineInitOutcomes(config) ==
    {EventConfig_post_init(config), "ConfigurationError"}

(***************************************************************************)
(* Seeding and construction (SpecSeed): Database.__init__ on a new         *)
(* database file, later calls of the two populate methods, and the         *)
(* construction of an EventEngine on the database.                         *)
(***************************************************************************)
SeedConfigs ==
    [supported_analytes : {<<"nicotine", "nh3">>, <<"nh3">>},
     supported_event_types : {{"analyte_based", "tobacco"}, {"tobacco"}},
     supported_states : {<<"green", "warning">>},
     default_state : {"green", "red"},
     thresholds : {<<>>, <<1>>},
     event_delay : {0},
     analyte_thresholds : {<<>>}]

\* The database calls leave the engine's run state alone.
EngineRunUnchanged ==
    UNCHANGED <<ee_pc, ee_names, ee_detection_time, ee_now, ee_ticks,
                ee_prediction, ee_observers, ee_delivered, ee_history, ee_last,
                ee_upd>>

NotEvent ==
    /\ OrchUnchanged /\ QueueUnchanged /\ DbUnchanged /\ GatewayUnchanged
    /\ IotUnchanged /\ UnitsUnchanged

\* Database.__init__: load_config, populate_supported_analytes, populate_events.
MiDatabaseInit ==
    /\ mi_op = <<"none">>
    /\ \E ok1, ok2 \in BOOLEAN :
         LET a == populate_supported_analytes(mi_analyte, mi_config, ok1)
             e == populate_events(mi_event, mi_config, ee_now, ok2)
         IN /\ mi_analyte' = a[1]
            /\ mi_event' = e[1]
            /\ mi_ret' = "None"
    /\ mi_op' = <<"__init__">>
    /\ UNCHANGED <<mi_config, mi_prediction, ee_built>>
    /\ EngineRunUnchanged
    /\ NotEvent

\* populate_supported_analytes() called on the instance.
MiPopulateSupportedAnalytes ==
    /\ mi_op # <<"none">>
    /\ \E db_ok \in BOOLEAN :
         LET a == populate_supported_analytes(mi_analyte, mi_config, db_ok)
         IN /\ mi_analyte' = a[1]
            /\ mi_ret' = a[2]
    /\ mi_op' = <<"populate_supported_analytes">>
    /\ UNCHANGED <<mi_config, mi_event, mi_prediction, ee_built>>
    /\ EngineRunUnchanged
    /\ NotEvent

\* populate_events() called on the instance.
MiPopulateEvents ==
    /\ mi_op # <<"none">>
    /\ \E db_ok \in BOOLEAN :
         LET e == populate_events(mi_event, mi_config, ee_now, db_ok)
         IN /\ mi_event' = e[1]
            /\ mi_ret' = e[2]
    /\ mi_op' = <<"populate_events">>
    /\ UNCHANGED <<mi_config, mi_analyte, mi_prediction, ee_built>>
    /\ EngineRunUnchanged
    /\ NotEvent

\* EventEngine(database, metadata): needs the Database instance.
EeConstruct ==
    /\ mi_op # <<"none">>
    /\ \E outcome \in EventEngineInitOutcomes(mi_config) :
         ee_built' = IF outcome = "ok" THEN "built" ELSE outcome
    /\ UNCHANGED mi_vars
    /\ EngineRunUnchanged
    /\ NotEvent

SeedNext ==
    \/ MiDatabaseInit
    \/ MiPopulateSupportedAnalytes
    \/ MiPopulateEvents
    \/ EeConstruct

InitSeed ==
    /\ OrchIdle /\ QueueIdle /\ DbIdle /\ GatewayIdle /\ IotIdle /\ UnitsIdle
    /\ EngineIdle
    /\ mi_config \in SeedConfigs
    /\ mi_analyte = {}
    /\ mi_event = <<>>
    /\ mi_prediction = <<>>
    /\ mi_op = <<"none">>
    /\ mi_ret = "none"

SpecSeed == InitSeed /\ [][SeedNext]_vars

(***************************************************************************)
(* Claims about seeding and construction (SpecSeed).                       *)
(***************************************************************************)

\* The configurations C27 is about.
InvalidEventConfig(config) ==
    \/ config.default_state \notin Range(config.supported_states)
    \/ config.thresholds = <<>>

\* C27: with default_state outside supported_states, or empty thresholds, the
\* construction fails, and no Analyte row and no Event row exists.
C27_InvalidConfigSeedsNothing ==
    InvalidEventConfig(mi_config) =>
        /\ ee_built # "built"
        /\ mi_analyte = {}
        /\ DOMAIN mi_event = {}

\* A populate call that committed has happened for the table.
AnalytesSeeded == mi_analyte # {}
EventsSeeded == DOMAIN mi_event # {}

MaxPredictionRows == 2      \* PREDICTION rows the calls may add up to

\* Python's truth value of an optional state name: None and '' are false.
state_given(state) == state # "None" /\ state # ""

\* is_supported_state: "state in supported_state"; None is in no list.
is_supported_state(config, state) == state \in Range(config.supported_states)

\* "value is not None and value > -1" (the same for temp and humidity).
shown(opt) == opt # <<>> /\ opt[1] > -1

\* _update_event_attributes: the row after the UPDATE built from kwargs.
update_event_attributes(row, state, value, date, temp, humidity) ==
    [last_state |-> IF state_given(state) THEN state ELSE row.last_state,
     date |-> IF date # <<>> THEN date[1] ELSE row.date,
     value |-> IF shown(value) THEN value[1] ELSE row.value,
     temp |-> IF shown(temp) THEN temp[1] ELSE row.temp,
     humidity |-> IF shown(humidity) THEN humidity[1] ELSE row.humidity]

\* update_event: <<the Event table afterwards, the value returned>>.  When
\* the state is not supported the if has no else and the method returns None.
update_event(table, config, event_name, state, value, date, temp, humidity, db_ok) ==
    IF is_supported_state(config, state)
      THEN IF ~db_ok THEN <<table, "False">>
           ELSE <<[n \in DOMAIN table |->
                     IF n = event_name
                       THEN update_event_attributes(table[n], state, value, date,
                                                    temp, humidity)
                       ELSE table[n]],
                  "True">>
      ELSE <<table, "None">>

\* _add_prediction: the row of one (analyte name, value) item.
PredictionRow(item) ==
    [analyte |-> item[1], value |-> item[2], sent_mqtt_payload |-> FALSE]

\* The rows save_prediction adds for the items whose analyte is in ANALYTE
\* (_get_analyte_id is not None), in the order of results.items().
RECURSIVE prediction_rows(_, _)
prediction_rows(analytes, results) ==
    IF results = <<>> THEN <<>>
    ELSE (IF Head(results)[1] \in analytes
            THEN <<PredictionRow(Head(results))>> ELSE <<>>)
         \o prediction_rows(analytes, Tail(results))

\* save_prediction where a failure keeps the rows added before it.
save_prediction_no_rollback(table, analytes, results, db_ok) ==
    IF results = <<>> THEN <<table, "False">>
    ELSE IF ~db_ok
           THEN <<table \o SubSeq(prediction_rows(analytes, results), 1, 1),
                  "False">>
           ELSE <<table \o prediction_rows(analytes, results), "True">>

\* save_prediction: <<the Prediction table afterwards, the value returned>>.
save_prediction(table, analytes, results, db_ok) ==
    IF results = <<>> THEN <<table, "False">>
    ELSE IF ~db_ok THEN <<table, "False">>
    ELSE <<table \o prediction_rows(analytes, results), "True">>

\* The configuration of the seeded database.
MiDbConfig ==
    [supported_analytes |-> <<"nicotine", "nh3">>,
     supported_event_types |-> {"analyte_based", "tobacco"},
     supported_states |-> <<"green", "warning">>,
     default_state |-> "green",
     thresholds |-> <<1>>,
     event_delay |-> 0,
     analyte_thresholds |-> <<>>]

\* The arguments the calls are tried with.
UpdateEventNames == {"nh3"}
UpdateStates == {"None", "warning", "red"}
UpdateValues == {<<>>, <<5>>, <<-1>>}
UpdateDates == {<<>>, <<7>>}
UpdateTemps == {<<>>, <<3>>}
UpdateHumidities == {<<>>, <<4>>}
ResultMaps ==
    {<<>>, << <<"nh3", 5>> >>, << <<"co2", 6>> >>,
     << <<"nh3", 5>>, <<"co2", 6>> >>, << <<"nicotine", 7>>, <<"nh3", 5>> >>}

\* update_event(event_name, state, value, date, temp, humidity)
MiUpdateEvent ==
    /\ \E event_name \in UpdateEventNames, state \in UpdateStates,
          value \in UpdateValues, date \in UpdateDates, temp \in UpdateTemps,
          humidity \in UpdateHumidities, db_ok \in BOOLEAN :
         LET r == update_event(mi_event, mi_config, event_name, state, value,
                               date, temp, humidity, db_ok)
         IN /\ mi_event' = r[1]
            /\ mi_ret' = r[2]
            /\ mi_op' = <<"update_event", event_name, state, value, date, temp,
                          humidity>>
    /\ UNCHANGED <<mi_config, mi_analyte, mi_prediction, ee_built>>
    /\ EngineRunUnchanged
    /\ NotEvent

\* save_prediction(last_log_id, results, date)
MiSavePrediction ==
    /\ \E results \in ResultMaps, db_ok \in BOOLEAN :
         LET r == save_prediction(mi_prediction, mi_analyte, results, db_ok)
         IN /\ Len(mi_prediction) + Len(results) <= MaxPredictionRows
            /\ mi_prediction' = r[1]
            /\ mi_ret' = r[2]
            /\ mi_op' = <<"save_prediction", results>>
    /\ UNCHANGED <<mi_config, mi_analyte, mi_event, ee_built>>
    /\ EngineRunUnchanged
    /\ NotEvent

MiDbNext ==
    \/ MiUpdateEvent
    \/ MiSavePrediction

InitMiDb ==
    /\ OrchIdle /\ QueueIdle /\ DbIdle /\ GatewayIdle /\ IotIdle /\ UnitsIdle
    /\ EngineIdle
    /\ mi_config = MiDbConfig
    /\ mi_analyte = Range(MiDbConfig.supported_analytes)
    /\ mi_event = [n \in ConfiguredEvents(MiDbConfig) |-> SeededEvent(MiDbConfig, 0)]
    /\ mi_prediction = <<>>
    /\ mi_op = <<"__init__">>
    /\ mi_ret = "None"

SpecMiDb == InitMiDb /\ [][MiDbNext]_vars

(***************************************************************************)
(* Claims about update_event and save_prediction (SpecMiDb).               *)
(***************************************************************************)

\* The last call was update_event on an existing row, and no database failure
\* was met.
UpdateEventCalled ==
    /\ mi_op[1] = "update_event"
    /\ mi_op[2] \in DOMAIN mi_event
    /\ mi_ret # "False"

\* C29: update_event called without a state but with a date, value, temp or
\* humidity reports success and the row holds the fields supplied; called with
\* an unsupported state it leaves the row as it was.
C29_UpdateEventAppliesSupplied ==
    (UpdateEventCalled /\ mi_op[3] = "None"
        /\ (mi_op[4] # <<>> \/ mi_op[5] # <<>> \/ mi_op[6] # <<>> \/ mi_op[7] # <<>>))
    => /\ mi_ret = "True"
       /\ mi_op[4] # <<>> => mi_event[mi_op[2]].value = mi_op[4][1]
       /\ mi_op[5] # <<>> => mi_event[mi_op[2]].date = mi_op[5][1]
       /\ mi_op[6] # <<>> => mi_event[mi_op[2]].temp = mi_op[6][1]
       /\ mi_op[7] # <<>> => mi_event[mi_op[2]].humidity = mi_op[7][1]

\* A step is a save_prediction call.
SavePredictionStep ==
    /\ mi_op'[1] = "save_prediction"
    /\ mi_op' # mi_op \/ mi_prediction' # mi_prediction \/ mi_ret' # mi_ret

\* The names of a result map that have a row in ANALYTE.
KnownItems(results) == {i \in DOMAIN results : results[i][1] \in mi_analyte}

\* C30: every save_prediction call returns True or False; returning True it
\* has added exactly one unsent row per item of the map whose analyte is in
\* ANALYTE, returning False it has added nothing; an empty map returns False.
C30_SavePredictionAllOrNothing ==
    [][SavePredictionStep =>
         LET results == mi_op'[2]
             added == SubSeq(mi_prediction', Len(mi_prediction) + 1,
                             Len(mi_prediction'))
         IN /\ mi_ret' \in {"True", "False"}
            /\ SubSeq(mi_prediction', 1, Len(mi_prediction)) = mi_prediction
            /\ mi_ret' = "False" => added = <<>>
            /\ results = <<>> => mi_ret' = "False"
            /\ mi_ret' = "True" =>
                 /\ Len(added) = Cardinality(KnownItems(results))
                 /\ \A i \in KnownItems(results) :
                      \E j \in DOMAIN added :
                         /\ added[j].analyte = results[i][1]
                         /\ added[j].value = results[i][2]
                         /\ ~added[j].sent_mqtt_payload
      ]_vars

\* Witness of C30: a save has committed one unsent row, and a later save of a
\* known analyte has failed and added nothing.
C30_Witness ==
    /\ mi_op = <<"save_prediction", << <<"nh3", 5>> >> >>
    /\ mi_ret = "False"
    /\ Len(mi_prediction) = 1
    /\ mi_prediction[1].analyte = "nh3"
    /\ ~mi_prediction[1].sent_mqtt_payload


(***************************************************************************)
(* Event engine: src/eventModule/event_engine.py                           *)
(* Prediction values are in hundredths (0.7 is 70, 15.01 is 1501), times   *)
(* in whole seconds.  The engine reads predictions through                 *)
(* get_prediction_value, whose result per analyte is ee_prediction.        *)
(***************************************************************************)
MaxTicks == 2               \* how many times the clock moves

TOBACCO_NICOTINE_THRESHOLD == 70
TOBACCO_NH3_LOW_THRESHOLD == 1500
TOBACCO_NH3_MEDIUM_THRESHOLD == 4000

\* timedelta.seconds is the seconds within the day: 0 <= seconds < 3600*24.
SECONDS_PER_DAY == 86400

\* The values of the EventState enumeration.
EventStateValues == {"normal", "warning", "alert", "critical"}

\* (datetime.now() - date).seconds
timedelta_seconds(elapsed) == elapsed % SECONDS_PER_DAY

\* get_latest_event()[1]: the date of the first row in date-descending order.
LatestEventDate(events) ==
    CHOOSE d \in {events[n].date : n \in DOMAIN events} :
        \A n \in DOMAIN events : events[n].date <= d

\* event_detection_required
event_detection_required(events, now, event_delay) ==
    IF DOMAIN events = {} THEN TRUE
    ELSE timedelta_seconds(now - LatestEventDate(events)) > event_delay

\* run_event_engine: "if not self.event_detection_required(): return",
\* without the test.
pass_starts_always(required) == TRUE

\* run_event_engine: "if not self.event_detection_required(): return".
pass_starts(required) == required

\* list.index, counted from 0.
get_state_id(states, state_name) ==
    (CHOOSE i \in DOMAIN states :
        states[i] = state_name /\ \A j \in 1..(i - 1) : states[j] # state_name) - 1

\* _get_state_name: the list is indexed from 0.
get_state_name(states, state_id) ==
    IF state_id < 0 THEN states[1]
    ELSE IF state_id >= Len(states) THEN states[Len(states)]
    ELSE states[state_id + 1]

\* "if result >= threshold" with > for >=.
threshold_met_strict(result, threshold) == result > threshold

\* _detect_analyte_event: "if result >= threshold: new_state_id += 1".
threshold_met(result, threshold) == result >= threshold

\* _detect_analyte_event: new_state_id after the for loop over the thresholds.
new_state_id(config, analyte, result) ==
    get_state_id(config.supported_states, config.default_state)
    + Cardinality({i \in DOMAIN config.analyte_thresholds[analyte] :
                     threshold_met(result, config.analyte_thresholds[analyte][i])})

\* _detect_tobacco_event with "<=" for "<" at the medium threshold.
tobacco_result_medium_inclusive(nicotine_result, nh3_result) ==
    IF nicotine_result >= TOBACCO_NICOTINE_THRESHOLD
      THEN IF nh3_result <= TOBACCO_NH3_LOW_THRESHOLD THEN 1
           ELSE IF nh3_result <= TOBACCO_NH3_MEDIUM_THRESHOLD THEN 2
           ELSE 3
      ELSE 0

\* _detect_tobacco_event: tobacco_result
tobacco_result(nicotine_result, nh3_result) ==
    IF nicotine_result >= TOBACCO_NICOTINE_THRESHOLD
      THEN IF nh3_result <= TOBACCO_NH3_LOW_THRESHOLD THEN 1
           ELSE IF nh3_result < TOBACCO_NH3_MEDIUM_THRESHOLD THEN 2
           ELSE 3
      ELSE 0

\* AnalyteConfig.__post_init__: "ok", or the ConfigurationError it raises.
AnalyteConfig_post_init(thresholds, name, unit, priority) ==
    IF thresholds = <<>> THEN "ConfigurationError"
    ELSE IF name = "" THEN "ConfigurationError"
    ELSE IF unit = "" THEN "ConfigurationError"
    ELSE IF priority < 0 THEN "ConfigurationError"
    ELSE "ok"

\* _create_event: the argument AnalyteConfig([], "", "") of
\* self._analyte_config.get(name, ...) is built before get is called.
create_event_outcome == AnalyteConfig_post_init(<<>>, "", "", 0)

\* EventState(state_name) finds a member, and _create_event returns.
event_created(state_name) ==
    state_name \in EventStateValues /\ create_event_outcome = "ok"

EventData(name, type, state, value, timestamp) ==
    [name |-> name, type |-> type, state |-> state, value |-> value,
     timestamp |-> timestamp]

\* _notify_observers where an observer's exception ends the loop.
notify_observers_until_raise(observers, delivered, event) ==
    LET first == IF \E i \in DOMAIN observers : observers[i] = "raises"
                   THEN CHOOSE i \in DOMAIN observers :
                          /\ observers[i] = "raises"
                          /\ \A j \in 1..(i - 1) : observers[j] # "raises"
                   ELSE Len(observers)
    IN [delivered |-> [i \in DOMAIN observers |->
                         IF i <= first THEN Append(delivered[i], event)
                                       ELSE delivered[i]],
        outcome |-> IF \E i \in DOMAIN observers : observers[i] = "raises"
                      THEN "raised" ELSE "returned"]

\* _notify_observers: every observer is called with the event; an exception
\* of on_event_detected is caught and logged.
notify_observers(observers, delivered, event) ==
    [delivered |-> [i \in DOMAIN observers |-> Append(delivered[i], event)],
     outcome |-> "returned"]

\* self._metadata
Metadata == [temp |-> 21, humidity |-> 40]

\* The configurations the engine is built with (EventConfig accepts them).
EngineConfigs ==
    {c \in [supported_analytes : {<<"nicotine", "nh3">>},
            supported_event_types : {{}, {"analyte_based", "tobacco"}},
            supported_states : {<<"green", "warning", "alert">>,
                                <<"normal", "green">>},
            default_state : {"green", "warning"},
            thresholds : {<<1>>},
            event_delay : {1},
            analyte_thresholds : {[nicotine |-> <<70>>,
                                   nh3 |-> <<1500, 4000>>]}] :
        EventConfig_post_init(c) = "ok"}

\* The values the MI worker's predictions take.
PredictionValues ==
    [nicotine |-> {69, 70}, nh3 |-> {1500, 1501, 4000}]

\* The steps of the clock.
TickSteps == {1, SECONDS_PER_DAY - 1}

\* The engine's steps leave the database's other tables alone.
EngineFrame ==
    /\ UNCHANGED <<mi_config, mi_analyte, mi_prediction, mi_op, mi_ret>>
    /\ UNCHANGED <<ee_built, ee_ticks, ee_now, ee_prediction, ee_observers>>
    /\ NotEvent

\* run_event_engine up to the first detection step.
EeRunEventEngine ==
    /\ ee_pc = "idle"
    /\ IF pass_starts(event_detection_required(mi_event, ee_now,
                                               mi_config.event_delay))
         THEN /\ ee_last' = "ran"
              /\ ee_detection_time' = ee_now
              /\ ee_names' = DOMAIN mi_event
              /\ ee_pc' = "analyte"
         ELSE /\ ee_last' = "skipped"
              /\ UNCHANGED <<ee_detection_time, ee_names, ee_pc>>
    /\ ee_upd' = NoUpdate
    /\ UNCHANGED <<mi_event, ee_history, ee_delivered>>
    /\ EngineFrame

\* What a detection step does once it has a state name and a value: the
\* update_event call, then the EventData, the history and the observers.
DetectionStores(event_name, type, state_name, value) ==
    \E db_ok \in BOOLEAN :
      LET r == update_event(mi_event, mi_config, event_name, state_name,
                            <<value>>, <<ee_detection_time>>, <<Metadata.temp>>,
                            <<Metadata.humidity>>, db_ok)
          event == EventData(event_name, type, state_name, value,
                             ee_detection_time)
      IN /\ mi_event' = r[1]
         /\ ee_upd' = [event |-> event_name, ret |-> r[2]]
         /\ IF event_created(state_name)
              THEN /\ ee_history' = Append(ee_history, event)
                   /\ ee_delivered' =
                        notify_observers(ee_observers, ee_delivered, event).delivered
              ELSE UNCHANGED <<ee_history, ee_delivered>>

\* _detect_analyte_event: one iteration of "for event_name in get_event_names()".
EeDetectAnalyte ==
    /\ ee_pc = "analyte"
    /\ \E event_name \in ee_names :
         /\ \A n \in ee_names : mi_event[n].date <= mi_event[event_name].date
         /\ ee_names' = ee_names \ {event_name}
         /\ IF /\ event_name \in Range(mi_config.supported_analytes)
               /\ ee_prediction[event_name] # <<>>
              THEN LET result == ee_prediction[event_name][1]
                   IN DetectionStores(event_name, "ANALYTE",
                          get_state_name(mi_config.supported_states,
                              new_state_id(mi_config, event_name, result)),
                          result)
              ELSE /\ ee_upd' = NoUpdate
                   /\ UNCHANGED <<mi_event, ee_history, ee_delivered>>
    /\ UNCHANGED <<ee_pc, ee_detection_time, ee_last>>
    /\ EngineFrame

\* _detect_tobacco_event, then the three detections that do nothing; the pass
\* is over.
EeDetectTobacco ==
    /\ ee_pc = "analyte"
    /\ ee_names = {}
    /\ IF ee_prediction["nicotine"] # <<>> /\ ee_prediction["nh3"] # <<>>
         THEN LET level == tobacco_result(ee_prediction["nicotine"][1],
                                          ee_prediction["nh3"][1])
              IN DetectionStores("tobacco", "TOBACCO",
                     get_state_name(mi_config.supported_states, level), level)
         ELSE /\ ee_upd' = NoUpdate
              /\ UNCHANGED <<mi_event, ee_history, ee_delivered>>
    /\ ee_pc' = "idle"
    /\ UNCHANGED <<ee_names, ee_detection_time, ee_last>>
    /\ EngineFrame

\* Time passes between two calls of the engine.
EeTick ==
    /\ ee_pc = "idle"
    /\ ee_ticks < MaxTicks
    /\ \E d \in TickSteps : ee_now' = ee_now + d
    /\ ee_ticks' = ee_ticks + 1
    /\ UNCHANGED <<mi_vars, ee_built, ee_pc, ee_names, ee_detection_time,
                   ee_prediction, ee_observers, ee_delivered, ee_history,
                   ee_last, ee_upd>>
    /\ NotEvent

\* The MI worker has saved a prediction: get_prediction_value returns it.
EePrediction ==
    /\ ee_pc = "idle"
    /\ \E analyte \in DOMAIN ee_prediction :
         \E v \in PredictionValues[analyte] :
            ee_prediction' = [ee_prediction EXCEPT ![analyte] = <<v>>]
    /\ UNCHANGED <<mi_vars, ee_built, ee_pc, ee_names, ee_detection_time,
                   ee_now, ee_ticks, ee_observers, ee_delivered, ee_history,
                   ee_last, ee_upd>>
    /\ NotEvent

EngineNext ==
    \/ EeRunEventEngine
    \/ EeDetectAnalyte
    \/ EeDetectTobacco
    \/ EeTick
    \/ EePrediction

InitEngine ==
    /\ OrchIdle /\ QueueIdle /\ DbIdle /\ GatewayIdle /\ IotIdle /\ UnitsIdle
    /\ mi_config \in EngineConfigs
    /\ mi_analyte = Range(mi_config.supported_analytes)
    /\ mi_event = [n \in ConfiguredEvents(mi_config) |-> SeededEvent(mi_config, 0)]
    /\ mi_prediction = <<>>
    /\ mi_op = <<"__init__">>
    /\ mi_ret = "None"
    /\ ee_built = "built"
    /\ ee_pc = "idle"
    /\ ee_names = {}
    /\ ee_detection_time = 0
    /\ ee_now = 0
    /\ ee_ticks = 0
    /\ ee_prediction = [nicotine |-> <<>>, nh3 |-> <<>>]
    /\ ee_observers = <<"returns", "raises">>
    /\ ee_delivered = <<<<>>, <<>>>>
    /\ ee_history = <<>>
    /\ ee_last = "none"
    /\ ee_upd = NoUpdate

SpecEngine == InitEngine /\ [][EngineNext]_vars


(***************************************************************************)
(* Claims about the event engine (SpecEngine).                             *)
(***************************************************************************)

\* C21: event_detection_required() is true exactly when there is no Event row
\* or more than event_delay whole seconds have passed since the most recent
\* Event row's date, whatever the duration (a day or more included).
C21_DetectionRequiredExact ==
    event_detection_required(mi_event, ee_now, mi_config.event_delay)
    <=> \/ DOMAIN mi_event = {}
        \/ ee_now - LatestEventDate(mi_event) > mi_config.event_delay

\* C22: while event_detection_required() is false, a run_event_engine call (as
\* any other step) modifies no Event row, appends nothing to the history,
\* notifies no observer and starts no detection.
C22_NoOpWhenNotRequired ==
    [][(/\ ee_pc = "idle"
        /\ ~event_detection_required(mi_event, ee_now, mi_config.event_delay))
       => /\ mi_event' = mi_event
          /\ ee_history' = ee_history
          /\ ee_delivered' = ee_delivered
          /\ ee_pc' = "idle"
      ]_vars

\* Witness of C22: a call was skipped although a prediction was there to be
\* detected.
C22_Witness ==
    /\ ee_last = "skipped"
    /\ ee_pc = "idle"
    /\ DOMAIN mi_event # {}
    /\ ee_prediction["nh3"] # <<>>
    /\ mi_event["nh3"].value = 0

\* A step of _detect_analyte_event that called update_event for name n.
AnalyteStored(n) ==
    /\ ee_pc = "analyte"
    /\ n \in ee_names
    /\ n \notin ee_names'
    /\ ee_upd'.event = n

\* The state the claim names: index(default_state) plus the number of
\* thresholds t <= v, clamped into the list.
ClampedState(states, default_state, thresholds, v) ==
    LET i == get_state_id(states, default_state)
               + Cardinality({k \in DOMAIN thresholds : thresholds[k] <= v})
        c == IF i < 0 THEN 0 ELSE IF i > Len(states) - 1 THEN Len(states) - 1 ELSE i
    IN states[c + 1]

TobaccoLevel(nicotine, nh3) ==
    IF nicotine < TOBACCO_NICOTINE_THRESHOLD THEN 0
    ELSE IF nh3 <= TOBACCO_NH3_LOW_THRESHOLD THEN 1
    ELSE IF nh3 < TOBACCO_NH3_MEDIUM_THRESHOLD THEN 2
    ELSE 3

\* The step of _detect_tobacco_event.
TobaccoStep == ee_pc = "analyte" /\ ee_names = {} /\ ee_pc' = "idle"

\* C24: the tobacco level stored is 0 for nicotine < 0.7, and for nicotine >=
\* 0.7 it is 1 for nh3 <= 15, 2 for 15 < nh3 < 40, 3 for nh3 >= 40; when a
\* prediction is missing the tobacco row is left unchanged.
C24_TobaccoLevel ==
    [][("tobacco" \in DOMAIN mi_event /\ TobaccoStep) =>
          IF ee_prediction["nicotine"] = <<>> \/ ee_prediction["nh3"] = <<>>
            THEN mi_event'["tobacco"] = mi_event["tobacco"]
            ELSE /\ ee_upd'.event = "tobacco"
                 /\ ee_upd'.ret = "True" =>
                      mi_event'["tobacco"].value =
                         TobaccoLevel(ee_prediction["nicotine"][1],
                                      ee_prediction["nh3"][1])
                 /\ ee_upd'.ret # "True" =>
                      mi_event'["tobacco"] = mi_event["tobacco"]
      ]_vars

\* Witness of C24: level 3 was stored for nicotine 0.7 and nh3 40.
C24_Witness ==
    /\ "tobacco" \in DOMAIN mi_event
    /\ mi_event["tobacco"].value = 3
    /\ ee_prediction["nicotine"] = <<70>>
    /\ ee_prediction["nh3"] = <<4000>>
    /\ ee_upd = [event |-> "tobacco", ret |-> "True"]

\* C25: a detection step that updates the Event row of an analyte appends the
\* EventData of that detection to the history and delivers it to every
\* registered observer.
C25_UpdateAppendsAndNotifies ==
    [][\A n \in DOMAIN mi_event :
          (AnalyteStored(n) /\ ee_upd'.ret = "True") =>
             LET event == EventData(n, "ANALYTE", mi_event'[n].last_state,
                                    ee_prediction[n][1], ee_detection_time)
             IN /\ ee_history' = Append(ee_history, event)
                /\ \A i \in DOMAIN ee_observers :
                      ee_delivered'[i] = Append(ee_delivered[i], event)
      ]_vars


(***************************************************************************)
(* The observers of the event engine (SpecObservers): add_observer,        *)
(* remove_observer and _notify_observers on an engine that was built.  No  *)
(* code of the repository registers an observer; the callers are the users *)
(* of the engine, who register objects whose on_event_detected returns or  *)
(* raises an Exception.                                                    *)
(***************************************************************************)

MaxObservers == 2           \* how many observers are registered at a time
MaxDelivered == 2           \* how many events an observer is called with

\* The observer objects: one whose on_event_detected returns, one whose
\* on_event_detected raises; "None" is the argument add_observer rejects.
Observers == {"returns", "raises"}

\* The events _notify_observers is called with.
NotifiedEvents ==
    {EventData("nh3", "ANALYTE", "warning", 1500, 0),
     EventData("tobacco", "TOBACCO", "detected", 3, 0)}

\* list.remove: the first occurrence goes, the rest keeps its order.
RemoveAt(seq, k) ==
    [i \in 1..(Len(seq) - 1) |-> IF i < k THEN seq[i] ELSE seq[i + 1]]

ObserversFrame ==
    /\ UNCHANGED <<mi_config, mi_analyte, mi_event, mi_prediction, mi_op, mi_ret>>
    /\ UNCHANGED <<ee_built, ee_pc, ee_names, ee_detection_time, ee_now,
                   ee_ticks, ee_prediction, ee_history>>
    /\ NotEvent

\* add_observer(observer)
EeAddObserver ==
    /\ ee_built = "built"
    /\ Len(ee_observers) < MaxObservers
    /\ \E observer \in Observers \cup {"None"} :
          IF observer = "None"
            THEN /\ ee_last' = "ValueError"
                 /\ UNCHANGED <<ee_observers, ee_delivered>>
            ELSE /\ ee_observers' = Append(ee_observers, observer)
                 /\ ee_delivered' = Append(ee_delivered, <<>>)
                 /\ ee_last' = "added"
    /\ UNCHANGED ee_upd
    /\ ObserversFrame

\* remove_observer(observer)
EeRemoveObserver ==
    /\ ee_built = "built"
    /\ \E observer \in Observers :
          IF \E k \in DOMAIN ee_observers : ee_observers[k] = observer
            THEN LET k == CHOOSE k \in DOMAIN ee_observers :
                             /\ ee_observers[k] = observer
                             /\ \A j \in 1..(k - 1) : ee_observers[j] # observer
                 IN /\ ee_observers' = RemoveAt(ee_observers, k)
                    /\ ee_delivered' = RemoveAt(ee_delivered, k)
                    /\ ee_last' = "removed"
            ELSE /\ ee_last' = "not found"
                 /\ UNCHANGED <<ee_observers, ee_delivered>>
    /\ UNCHANGED ee_upd
    /\ ObserversFrame

\* _notify_observers(event)
EeNotifyObservers ==
    /\ ee_built = "built"
    /\ \A i \in DOMAIN ee_delivered : Len(ee_delivered[i]) < MaxDelivered
    /\ \E event \in NotifiedEvents :
          LET r == notify_observers(ee_observers, ee_delivered, event)
          IN /\ ee_delivered' = r.delivered
             /\ ee_upd' = [event |-> event.name, ret |-> r.outcome]
    /\ ee_last' = "notified"
    /\ UNCHANGED ee_observers
    /\ ObserversFrame

ObserversNext ==
    \/ EeAddObserver
    \/ EeRemoveObserver
    \/ EeNotifyObservers

InitObservers ==
    /\ OrchIdle /\ QueueIdle /\ DbIdle /\ GatewayIdle /\ IotIdle /\ UnitsIdle
    /\ mi_config = MiDbConfig
    /\ mi_analyte = Range(mi_config.supported_analytes)
    /\ mi_event = [n \in ConfiguredEvents(mi_config) |-> SeededEvent(mi_config, 0)]
    /\ mi_prediction = <<>>
    /\ mi_op = <<"__init__">>
    /\ mi_ret = "None"
    /\ ee_built = "built"
    /\ ee_pc = "idle"
    /\ ee_names = {}
    /\ ee_detection_time = 0
    /\ ee_now = 0
    /\ ee_ticks = 0
    /\ ee_prediction = [nicotine |-> <<>>, nh3 |-> <<>>]
    /\ ee_observers = <<>>
    /\ ee_delivered = <<>>
    /\ ee_history = <<>>
    /\ ee_last = "none"
    /\ ee_upd = NoUpdate

SpecObservers == InitObservers /\ [][ObserversNext]_vars

\* A step of _notify_observers with at least one observer registered.
NotifyStep == ee_observers' = ee_observers /\ ee_delivered' # ee_delivered

\* C26: when a registered observer raises while it is notified of an event,
\* every other registered observer is still notified of that same event, and
\* the exception does not leave _notify_observers.
C26_ObserverFailureIsolated ==
    [][NotifyStep =>
          /\ \E event \in NotifiedEvents :
                \A i \in DOMAIN ee_observers :
                   ee_delivered'[i] = Append(ee_delivered[i], event)
          /\ ee_upd'.ret = "returned"
      ]_vars

\* Witness of C26: an observer registered after the raising one was called
\* with the event the raising one was called with.
C26_Witness ==
    /\ ee_observers = <<"raises", "returns">>
    /\ ee_last = "notified"
    /\ ee_upd.ret = "returned"
    /\ ee_delivered[1] # <<>>
    /\ ee_delivered[2] = ee_delivered[1]


(***************************************************************************)
(* The LCD (SpecLcd): src/lcdModule/lcd.py over the I2C driver of          *)
(* src/lcdModule/rgb1602.py, under any caller.  A text is the sequence of  *)
(* its characters.  A float is written in thousandths (event_value) or in  *)
(* tenths (temperature, humidity, cpu_usage).                              *)
(***************************************************************************)

\* LCD.MAX_COLUMNS
MAX_COLUMNS == 16

NotUnits ==
    /\ OrchUnchanged /\ QueueUnchanged /\ DbUnchanged /\ GatewayUnchanged
    /\ IotUnchanged /\ MiUnchanged /\ EngineUnchanged

DigitChars == <<"0", "1", "2", "3", "4", "5", "6", "7", "8", "9">>

\* str(n) of an int n >= 0.
RECURSIVE str_int(_)
str_int(n) ==
    IF n < 10 THEN <<DigitChars[n + 1]>>
    ELSE Append(str_int(n \div 10), DigitChars[(n % 10) + 1])

\* round(x, 2) of x >= 0 given in thousandths, in hundredths; no input is on
\* a tie.
round_2(thousandths) == (thousandths + 5) \div 10

\* str(x) of a float x >= 0 with at most two decimals, given in hundredths:
\* the shortest text that reads back as x, with one decimal at least.
str_float(hundredths) ==
    LET f == hundredths % 100
    IN str_int(hundredths \div 100) \o <<".">> \o
       (IF f % 10 = 0 THEN <<DigitChars[(f \div 10) + 1]>>
        ELSE <<DigitChars[(f \div 10) + 1], DigitChars[(f % 10) + 1]>>)

TruncatedOutput ==
    <<"T", "r", "u", "n", "c", "a", "t", "e", "d", " ",
      "O", "u", "t", "p", "u", "t">>

\* _format_row_1: len(event_name) + len(formatted_value) < self.MAX_COLUMNS
row_1_fits(event_name, formatted_value) ==
    Len(event_name) + Len(formatted_value) < MAX_COLUMNS

\* _format_row_1
format_row_1(event_name, event_value) ==
    LET formatted_value == str_float(round_2(event_value))
    IN IF row_1_fits(event_name, formatted_value)
         THEN event_name \o <<":", " ">> \o formatted_value
         ELSE TruncatedOutput

\* int(x % m) of a float x >= 0 given in tenths.
int_mod(tenths, m) == (tenths % (m * 10)) \div 10

\* f"{n:0{width}d}" of an int n >= 0.
RECURSIVE zero_padded(_, _)
zero_padded(digits, width) ==
    IF Len(digits) >= width THEN digits ELSE zero_padded(<<"0">> \o digits, width)

\* _format_row_2
format_row_2(temp, humidity, cpu) ==
    <<"T">> \o zero_padded(str_int(int_mod(temp, 100)), 2) \o <<"*", "C", " ">>
    \o <<"H">> \o zero_padded(str_int(int_mod(humidity, 101)), 2) \o <<"%", " ">>
    \o <<"P">> \o zero_padded(str_int(int_mod(cpu, 101)), 3) \o <<"%">>

\* LCDColor
LCDColor ==
    [WHITE |-> <<255, 255, 255>>, GREEN |-> <<0, 255, 0>>,
     GHOST_WHITE |-> <<248, 248, 60>>]

\* _set_background_color: color_map.get(event_state, LCDColor.GHOST_WHITE)
color_map(event_state) ==
    IF event_state = "GREEN" THEN LCDColor.GREEN
    ELSE LCDColor.GHOST_WHITE

\* set_rgb: "if (red, green, blue) != self._last_rgb".
colour_changed(rgb, last_rgb) == rgb # last_rgb

\* set_rgb(red, green, blue); fail_at is the register write that raises (0:
\* none does).  The cache is assigned after the third write.
set_rgb(last_rgb, regs, rgb, fail_at) ==
    IF ~colour_changed(rgb, last_rgb)
      THEN [last_rgb |-> last_rgb, regs |-> regs, writes |-> 0, outcome |-> "ok"]
      ELSE LET done == IF fail_at = 0 THEN 3 ELSE fail_at - 1
           IN [last_rgb |-> IF fail_at = 0 THEN rgb ELSE last_rgb,
               regs |-> [k \in 1..3 |-> IF k <= done THEN <<rgb[k]>> ELSE regs[k]],
               writes |-> done,
               outcome |-> IF fail_at = 0 THEN "ok" ELSE "I2CError"]

\* The names, values and readings LCD.update is called with.
LcdEventNames ==
    {<<"n", "h", "3">>,
     <<"n", "i", "c", "o", "t", "i", "n", "e">>,
     <<"f", "o", "r", "m", "a", "l", "d", "e", "h", "y", "d", "e">>}
LcdEventValues == {700, 1234567}
LcdEventStates == {"GREEN", "UNKNOWN"}
LcdTemperatures == {215}
LcdHumidities == {455, 1000}
LcdCpuUsages == {37, 1000}

LcdFrame ==
    /\ NotUnits /\ TfUnchanged /\ MiWorkerUnchanged /\ SerialUnchanged
    /\ CollectUnchanged

\* RGB1602(columns, rows): __init__ sets the cache to white and calls begin,
\* whose last call is set_color_white().
LcdInit ==
    /\ ~lcd_built
    /\ \E i2c_ok \in BOOLEAN :
         IF i2c_ok
           THEN LET r == set_rgb(LCDColor.WHITE, lcd_regs, LCDColor.WHITE, 0)
                IN /\ lcd_built' = TRUE
                   /\ lcd_last_rgb' = r.last_rgb
                   /\ lcd_regs' = r.regs
                   /\ lcd_op' = <<"__init__", r.writes, "ok">>
           ELSE /\ lcd_op' = <<"__init__", 0, "I2CError">>
                /\ UNCHANGED <<lcd_built, lcd_last_rgb, lcd_regs>>
    /\ UNCHANGED lcd_rows
    /\ LcdFrame

\* LCD.set_backlight_color(color)
LcdSetBacklightColor ==
    /\ lcd_built
    /\ \E name \in DOMAIN LCDColor, fail_at \in {0, 2} :
         LET r == set_rgb(lcd_last_rgb, lcd_regs, LCDColor[name], fail_at)
         IN /\ lcd_last_rgb' = r.last_rgb
            /\ lcd_regs' = r.regs
            /\ lcd_op' = <<"set_rgb", LCDColor[name], lcd_last_rgb, r.writes,
                           r.outcome>>
    /\ UNCHANGED <<lcd_built, lcd_rows>>
    /\ LcdFrame

\* LCD.update(data): clear, the background colour, row 0, row 1; an I2C
\* failure ends the call with LCDError.
LcdUpdate ==
    /\ lcd_built
    /\ \E event_name \in LcdEventNames, event_value \in LcdEventValues,
          event_state \in LcdEventStates, temperature \in LcdTemperatures,
          humidity \in LcdHumidities, cpu_usage \in LcdCpuUsages,
          fails \in {"none", "clear", "set_rgb"} :
         LET r == set_rgb(lcd_last_rgb, lcd_regs, color_map(event_state),
                          IF fails = "set_rgb" THEN 2 ELSE 0)
             row_1 == format_row_1(event_name, event_value)
             row_2 == format_row_2(temperature, humidity, cpu_usage)
         IN /\ lcd_op' = <<"update",
                           [event_name |-> event_name, event_value |-> event_value,
                            humidity |-> humidity],
                           IF fails = "none" \/ (fails = "set_rgb" /\ r.outcome = "ok")
                             THEN "ok" ELSE "LCDError">>
            /\ IF fails = "clear"
                 THEN UNCHANGED <<lcd_last_rgb, lcd_regs, lcd_rows>>
                 ELSE /\ lcd_last_rgb' = r.last_rgb
                      /\ lcd_regs' = r.regs
                      /\ lcd_rows' =
                           IF r.outcome # "ok" THEN <<<<>>, <<>>>>
                           ELSE <<row_1, row_2>>
    /\ UNCHANGED lcd_built
    /\ LcdFrame

LcdNext ==
    \/ LcdInit
    \/ LcdSetBacklightColor
    \/ LcdUpdate

InitLcd ==
    /\ OrchIdle /\ QueueIdle /\ DbIdle /\ GatewayIdle /\ IotIdle /\ EventIdle
    /\ UnitsIdle

SpecLcd == InitLcd /\ [][LcdNext]_vars

\* An update call that returned.
Updated == lcd_op[1] = "update" /\ lcd_op[3] = "ok"

\* C31: row 1 of LCD.update is "{event_name}: {value rounded to 2 decimals}"
\* when that text has at most 16 characters and "Truncated Output" otherwise,
\* so what is written to row 1 never exceeds 16 characters.
C31_Row1AtMost16 ==
    Updated =>
       LET text == lcd_op[2].event_name \o <<":", " ">>
                     \o str_float(round_2(lcd_op[2].event_value))
       IN /\ lcd_rows[1] = IF Len(text) <= 16 THEN text ELSE TruncatedOutput
          /\ Len(lcd_rows[1]) <= 16

\* C40: the row-2 text LCD.update writes is exactly 16 characters long for all
\* non-negative temperature, humidity and CPU readings.
C40_Row2Exactly16 == Updated => Len(lcd_rows[2]) = 16

\* C32: the driver's cached colour equals the colour held in the backlight
\* registers, which after initialization have been written with white.
C32_CacheEqualsRegisters ==
    lcd_built =>
       /\ lcd_regs # Unwritten
       /\ lcd_last_rgb = <<lcd_regs[1][1], lcd_regs[2][1], lcd_regs[3][1]>>


(***************************************************************************)
(* The LSTM states of a TFLite model (SpecModel):                          *)
(* src/miModule/tflite_model.py.  A state file is missing, corrupt (it     *)
(* exists and np.load raises on it), or holds zeros or trained values;     *)
(* model.tflite is there.                                                  *)
(***************************************************************************)

ZeroStates == [k \in DOMAIN StateFiles |-> "zeros"]

\* _state_files_exist
state_files_exist(files) == \A k \in DOMAIN StateFiles : files[k] # "missing"

\* _load_states: np.load of the four files, in the order h1, c1, h2, c2.
load_states(files) ==
    IF \E k \in DOMAIN StateFiles : files[k] = "corrupt"
      THEN [states |-> <<>>, outcome |-> "raise"]
      ELSE [states |-> files, outcome |-> "ok"]

\* _initialize_states, with the _create_states that saves the zero states.
initialize_states(files, force_reset) ==
    IF force_reset \/ ~state_files_exist(files)
      THEN [states |-> ZeroStates, files |-> ZeroStates, outcome |-> "ok"]
      ELSE LET r == load_states(files)
           IN IF r.outcome = "ok"
                THEN [states |-> r.states, files |-> files, outcome |-> "ok"]
                ELSE [states |-> <<>>, files |-> files, outcome |-> "ValueError"]

ModelFrame ==
    /\ NotUnits /\ LcdUnchanged /\ MiWorkerUnchanged /\ SerialUnchanged
    /\ CollectUnchanged

\* TFLiteModel(name, model_dir, num_states, force_reset=...)
TfConstruct ==
    /\ tf_built # "built"
    /\ \E force_reset \in BOOLEAN :
         LET r == initialize_states(tf_files, force_reset)
         IN /\ tf_states' = r.states
            /\ tf_files' = r.files
            /\ tf_built' = IF r.outcome = "ok" THEN "built" ELSE r.outcome
            /\ tf_op' = <<"__init__", force_reset, tf_files>>
    /\ ModelFrame

\* predict(data): the states become the outputs of the run and are saved.
TfPredict ==
    /\ tf_built = "built"
    /\ tf_states' = [k \in DOMAIN StateFiles |-> "values"]
    /\ tf_files' = tf_states'
    /\ tf_op' = <<"predict", FALSE, tf_files>>
    /\ UNCHANGED tf_built
    /\ ModelFrame

\* The MI process ends (a group restart): the model object is gone, the files
\* stay.
TfProcessEnds ==
    /\ tf_built # "none"
    /\ tf_built' = "none"
    /\ tf_states' = <<>>
    /\ tf_op' = <<"exit", FALSE, tf_files>>
    /\ UNCHANGED tf_files
    /\ ModelFrame

\* While no model is running a state file is deleted or damaged (a write cut
\* short by a power loss).
TfFileDamaged ==
    /\ tf_built = "none"
    /\ \E k \in DOMAIN StateFiles, how \in {"missing", "corrupt"} :
         /\ tf_files[k] # how
         /\ tf_files' = [tf_files EXCEPT ![k] = how]
    /\ tf_op' = <<"damage", FALSE, tf_files>>
    /\ UNCHANGED <<tf_states, tf_built>>
    /\ ModelFrame

ModelNext ==
    \/ TfConstruct
    \/ TfPredict
    \/ TfProcessEnds
    \/ TfFileDamaged

InitModel ==
    /\ OrchIdle /\ QueueIdle /\ DbIdle /\ GatewayIdle /\ IotIdle /\ EventIdle
    /\ UnitsIdle

SpecModel == InitModel /\ [][ModelNext]_vars

\* C33: with force_reset false and one of the four state files missing or
\* unreadable, constructing the model zero-initializes both state pairs
\* and does not fail.
C33_DamagedStatesZeroInitialized ==
    (/\ tf_op[1] = "__init__"
     /\ ~tf_op[2]
     /\ \E k \in DOMAIN StateFiles : tf_op[3][k] \in {"missing", "corrupt"})
    => /\ tf_built = "built"
       /\ tf_states = ZeroStates


(***************************************************************************)
(* The MI-detection worker (SpecMiWorker): _run_mi_detection_process of    *)
(* src/main.py with the Telemetry Database it reads, while the sensor      *)
(* worker writes logs.  InferenceEngine() and EventEngine(...) are         *)
(* followed to the constructors the calls evidently mean; as written they  *)
(* raise TypeError, which MiwFails covers together with every other        *)
(* exception of the worker.                                                *)
(***************************************************************************)

MaxWorkerLogs == 3          \* TELEMETRY_LOG rows the sensor worker writes
MaxCycles == 4              \* inference cycles one worker completes
MaxSkipped == 1             \* skipped cycles that are counted

\* get_baseline that returns data whatever the number of logs.
baseline_insufficient_never(nb_of_telemetry_log, base_line_count) == FALSE

\* get_baseline: "if self.get_nb_of_telemetry_log() < base_line_count: return None".
baseline_insufficient(nb_of_telemetry_log, base_line_count) ==
    nb_of_telemetry_log < base_line_count

\* get_baseline: None, or the first base_line_count rows of get_telemetry.
get_baseline(logs, valued, base_line_count) ==
    IF baseline_insufficient(logs, base_line_count) THEN <<>>
    ELSE <<IF valued < base_line_count THEN valued ELSE base_line_count>>

\* "if mi_detection_count >= event_delay" with the comparison strict.
delay_reached_strict(mi_detection_count, event_delay) ==
    mi_detection_count > event_delay

\* "if mi_detection_count >= config['event_config']['event_delay']".
delay_reached(mi_detection_count, event_delay) ==
    mi_detection_count >= event_delay

MiWorkerConfigs ==
    [baseline_count : {0, 2}, event_delay : {1, 2}]

MiWorkerFrame ==
    /\ NotUnits /\ LcdUnchanged /\ TfUnchanged /\ SerialUnchanged
    /\ CollectUnchanged

\* The "while True" loop around get_baseline.
MiwGetBaseline ==
    /\ miw_pc = "get_baseline"
    /\ miw_baseline' = get_baseline(miw_logs, miw_valued, miw_config.baseline_count)
    /\ miw_pc' = IF miw_baseline' # <<>> THEN "sleep" ELSE "get_baseline"
    /\ UNCHANGED <<miw_config, miw_logs, miw_valued, miw_count, miw_saved,
                   miw_cycles, miw_invoked, miw_skipped, miw_ever>>
    /\ MiWorkerFrame

\* sleep(prediction_delay), the with block and "if last_sensor_value is None:
\* continue".
MiwLastLog ==
    /\ miw_pc = "sleep"
    /\ IF miw_valued = 0
         THEN /\ miw_skipped' = IF miw_skipped < MaxSkipped THEN miw_skipped + 1
                                ELSE miw_skipped
              /\ UNCHANGED miw_pc
         ELSE /\ miw_pc' = "inference"
              /\ UNCHANGED miw_skipped
    /\ UNCHANGED <<miw_config, miw_logs, miw_valued, miw_baseline, miw_count,
                   miw_saved, miw_cycles, miw_invoked, miw_ever>>
    /\ MiWorkerFrame

\* run_inference, save_prediction, the counter and the event engine.
MiwInference ==
    /\ miw_pc = "inference"
    /\ miw_cycles < MaxCycles
    /\ miw_cycles' = miw_cycles + 1
    /\ \E committed \in BOOLEAN :
         miw_saved' = IF committed THEN miw_saved + 1 ELSE miw_saved
    /\ IF delay_reached(miw_count + 1, miw_config.event_delay)
         THEN /\ miw_invoked' = miw_invoked \cup {miw_cycles'}
              /\ miw_count' = 0
              /\ \E engine_raises \in BOOLEAN :
                   miw_pc' = IF engine_raises THEN "failed" ELSE "sleep"
         ELSE /\ miw_count' = miw_count + 1
              /\ miw_pc' = "sleep"
              /\ UNCHANGED miw_invoked
    /\ UNCHANGED <<miw_config, miw_logs, miw_valued, miw_baseline, miw_skipped,
                   miw_ever>>
    /\ MiWorkerFrame

\* An exception leaves the worker: the process ends.
MiwFails ==
    /\ miw_pc \in {"get_baseline", "sleep", "inference"}
    /\ miw_pc' = "failed"
    /\ UNCHANGED <<miw_config, miw_logs, miw_valued, miw_baseline, miw_count,
                   miw_saved, miw_cycles, miw_invoked, miw_skipped, miw_ever>>
    /\ MiWorkerFrame

\* The sensor worker writes a log, with its telemetry values or (the Telemetry
\* constructor raising) without.
MiwSensorWrites ==
    /\ miw_logs < MaxWorkerLogs
    /\ miw_logs' = miw_logs + 1
    /\ \E values \in BOOLEAN :
         miw_valued' = IF values THEN miw_valued + 1 ELSE miw_valued
    /\ miw_ever' = (miw_ever \/ miw_logs' >= miw_config.baseline_count)
    /\ UNCHANGED <<miw_pc, miw_config, miw_baseline, miw_count, miw_saved,
                   miw_cycles, miw_invoked, miw_skipped>>
    /\ MiWorkerFrame

MiWorkerNext ==
    \/ MiwGetBaseline
    \/ MiwLastLog
    \/ MiwInference
    \/ MiwFails
    \/ MiwSensorWrites

InitMiWorker ==
    /\ OrchIdle /\ QueueIdle /\ DbIdle /\ GatewayIdle /\ IotIdle /\ EventIdle
    /\ LcdIdle /\ TfIdle /\ SerialIdle /\ CollectIdle
    /\ miw_pc = "get_baseline"
    /\ miw_config \in MiWorkerConfigs
    /\ miw_logs = 0
    /\ miw_valued = 0
    /\ miw_baseline = <<>>
    /\ miw_count = 0
    /\ miw_saved = 0
    /\ miw_cycles = 0
    /\ miw_invoked = {}
    /\ miw_skipped = 0
    /\ miw_ever = (miw_config.baseline_count = 0)

SpecMiWorker == InitMiWorker /\ [][MiWorkerNext]_vars

\* C34: the MI-detection worker saves no Prediction row, and starts no
\* inference cycle, before the Telemetry Database has held baseline_count
\* logs and the baseline was taken.
C34_NoPredictionBeforeBaseline ==
    (miw_saved > 0 \/ miw_cycles > 0 \/ miw_pc \in {"sleep", "inference"})
    => miw_ever /\ (miw_pc # "failed" => miw_baseline # <<>>)

\* Witness of C34: a prediction was saved under a baseline of two logs.
C34_Witness ==
    /\ miw_config.baseline_count = 2
    /\ miw_saved > 0
    /\ miw_baseline = <<2>>

\* C35: with event_delay = k >= 1 the event engine is called after exactly
\* every k-th completed inference cycle; skipped cycles do not count.
C35_EngineEveryKthCycle ==
    miw_config.event_delay >= 1 =>
       miw_invoked = {c \in 1..miw_cycles : c % miw_config.event_delay = 0}

\* Witness of C35: with event_delay 2 the engine was called after the second
\* and the fourth cycle, a cycle having been skipped.
C35_Witness ==
    /\ miw_config.event_delay = 2
    /\ miw_invoked = {2, 4}
    /\ miw_skipped > 0
    /\ miw_pc = "sleep"


(***************************************************************************)
(* The serial communicator (SpecSerial):                                   *)
(* src/sensorModule/serial_communicator.py under any caller, with a device *)
(* that sends payloads and can be unplugged and plugged back.  An          *)
(* operation on the port raises SerialException while the device is down.  *)
(***************************************************************************)

MaxWaiting == 3             \* payloads the driver's buffer holds
MaxReconnects == 2          \* _reconnect calls that are counted

\* _connect: serial.Serial(...) opens the port, or SerialException is logged
\* and raised again.
connect(link) ==
    IF link = "up" THEN [serial |-> "open", outcome |-> "ok"]
    ELSE [serial |-> "None", outcome |-> "SerialException"]

\* _reconnect: close() leaves self._serial None, then _connect().
reconnect(link) == connect(link)

\* A method's "except SerialException:" branch: the warning, _reconnect(), and
\* the value the method returns when _reconnect returned.
handled(link, returns) ==
    LET r == reconnect(link)
    IN [serial |-> r.serial,
        outcome |-> IF r.outcome = "ok" THEN returns ELSE r.outcome]

\* The port operation of a method: it raises SerialException while the
\* device is down, and AttributeError when self._serial is None.
port_raises(serial, link) ==
    IF serial = "None" THEN "AttributeError"
    ELSE IF link = "down" THEN "SerialException"
    ELSE "no"

Raised(outcome) == outcome \in {"SerialException", "AttributeError"}

Counted(n) == IF n < MaxReconnects THEN n + 1 ELSE n

SerialFrame ==
    /\ NotUnits /\ LcdUnchanged /\ TfUnchanged /\ MiWorkerUnchanged
    /\ CollectUnchanged

\* A method whose port operation works returns value; otherwise its except
\* branch runs, the device being up or down when _reconnect reopens the port.
SerMethod(method, value, returns) ==
    LET raises == port_raises(ser_serial, ser_link)
    IN IF raises = "no"
         THEN /\ ser_op' = <<method, value>>
              /\ UNCHANGED <<ser_serial, ser_link, ser_reconnects>>
         ELSE IF raises = "AttributeError"
           THEN /\ ser_op' = <<method, raises>>
                /\ UNCHANGED <<ser_serial, ser_link, ser_reconnects>>
           ELSE \E link \in {"up", "down"} :
                  LET r == handled(link, returns)
                  IN /\ ser_link' = link
                     /\ ser_serial' = r.serial
                     /\ ser_op' = <<method, r.outcome>>
                     /\ ser_reconnects' = Counted(ser_reconnects)

\* SerialCommunicator(port, baud_rate)
SerConstruct ==
    /\ ser_op[1] = "none"
    /\ LET r == connect(ser_link)
       IN /\ ser_serial' = r.serial
          /\ ser_op' = <<"__init__", r.outcome>>
    /\ UNCHANGED <<ser_link, ser_waiting, ser_reconnects>>
    /\ SerialFrame

Constructed == ser_op[1] # "none" /\ ser_op # <<"__init__", "SerialException">>

\* is_data_available()
SerIsDataAvailable ==
    /\ Constructed
    /\ SerMethod("is_data_available",
                 IF ser_waiting > 0 THEN "True" ELSE "False", "False")
    /\ UNCHANGED ser_waiting
    /\ SerialFrame

\* read_until(terminator): is_data_available(), then the read; the device may
\* go down between the two.
SerReadUntil ==
    /\ Constructed
    /\ IF port_raises(ser_serial, ser_link) = "no" /\ ser_waiting > 0
         THEN \E link \in {"up", "down"} :
                IF link = "up"
                  THEN /\ ser_waiting' = ser_waiting - 1
                       /\ ser_op' = <<"read_until", "data">>
                       /\ UNCHANGED <<ser_serial, ser_link, ser_reconnects>>
                  ELSE \E reopen \in {"up", "down"} :
                         LET r == handled(reopen, "None")
                         IN /\ ser_link' = reopen
                            /\ ser_serial' = r.serial
                            /\ ser_op' = <<"read_until", r.outcome>>
                            /\ ser_reconnects' = Counted(ser_reconnects)
                            /\ UNCHANGED ser_waiting
         ELSE /\ SerMethod("read_until", "None", "None")
              /\ UNCHANGED ser_waiting
    /\ SerialFrame

\* flush()
SerFlush ==
    /\ Constructed
    /\ SerMethod("flush", "None", "None")
    /\ UNCHANGED ser_waiting
    /\ SerialFrame

\* The device sends a payload.
SerDeviceSends ==
    /\ ser_link = "up"
    /\ ser_serial = "open"
    /\ ser_waiting < MaxWaiting
    /\ ser_waiting' = ser_waiting + 1
    /\ UNCHANGED <<ser_serial, ser_link, ser_reconnects, ser_op>>
    /\ SerialFrame

\* The device is unplugged, or plugged back.
SerLinkChanges ==
    /\ ser_link' = IF ser_link = "up" THEN "down" ELSE "up"
    /\ UNCHANGED <<ser_serial, ser_waiting, ser_reconnects, ser_op>>
    /\ SerialFrame

SerialNext ==
    \/ SerConstruct
    \/ SerIsDataAvailable
    \/ SerReadUntil
    \/ SerFlush
    \/ SerDeviceSends
    \/ SerLinkChanges

InitSerial ==
    /\ OrchIdle /\ QueueIdle /\ DbIdle /\ GatewayIdle /\ IotIdle /\ EventIdle
    /\ UnitsIdle

SpecSerial == InitSerial /\ [][SerialNext]_vars

\* C36: a serial transport failure never leaves is_data_available, read_until
\* or flush: each closes and reopens the connection and reports no data or
\* None, also when the reopening fails and when failures repeat.
C36_SerialFailureNeverPropagates ==
    ser_op[1] \in {"is_data_available", "read_until", "flush"}
    => ~Raised(ser_op[2])


(***************************************************************************)
(* The collection switch (SpecCollect): start_collection and               *)
(* stop_collection of src/sensorModule/sensor_interface.py, called by the  *)
(* thread that owns the SensorInterface, against _collection_loop running  *)
(* in the collection thread.  Each step of the loop is one access to the   *)
(* flag, the port or the queue; no lock is held across them.               *)
(***************************************************************************)

MaxCollected == 2           \* samples the DataQueue holds (buffer_size)

CollectFrame ==
    /\ NotUnits /\ LcdUnchanged /\ TfUnchanged /\ MiWorkerUnchanged
    /\ SerialUnchanged

\* _collection_loop: "if not self._collection_enabled: sleep(0.1); continue".
CollectorTestsFlag ==
    /\ col_pc = "loop"
    /\ col_pc' = IF col_enabled THEN "is_data_available" ELSE "loop"
    /\ UNCHANGED <<col_enabled, col_waiting, col_queued, col_stopped, col_read,
                   col_put>>
    /\ CollectFrame

\* _process_payload: "if not self._serial.is_data_available(): return".
CollectorIsDataAvailable ==
    /\ col_pc = "is_data_available"
    /\ col_pc' = IF col_waiting > 0 THEN "read_until" ELSE "loop"
    /\ UNCHANGED <<col_enabled, col_waiting, col_queued, col_stopped, col_read,
                   col_put>>
    /\ CollectFrame

\* _process_payload: read_until and the test of the payload, which is
\* complete or not.
CollectorReadUntil ==
    /\ col_pc = "read_until"
    /\ col_waiting' = col_waiting - 1
    /\ col_read' = (col_read \/ col_stopped)
    /\ \E complete \in BOOLEAN : col_pc' = IF complete THEN "put" ELSE "loop"
    /\ UNCHANGED <<col_enabled, col_queued, col_stopped, col_put>>
    /\ CollectFrame

\* _process_payload: process_payload, the size test and put.
CollectorQueuePut ==
    /\ col_pc = "put"
    /\ IF col_queued < MaxCollected
         THEN /\ col_queued' = col_queued + 1
              /\ col_put' = (col_put \/ col_stopped)
         ELSE UNCHANGED <<col_queued, col_put>>
    /\ col_pc' = "loop"
    /\ UNCHANGED <<col_enabled, col_waiting, col_stopped, col_read>>
    /\ CollectFrame

\* stop_collection()
StopCollection ==
    /\ col_pc # "off"
    /\ col_enabled' = FALSE
    /\ col_stopped' = TRUE
    /\ col_read' = FALSE
    /\ col_put' = FALSE
    /\ UNCHANGED <<col_pc, col_waiting, col_queued>>
    /\ CollectFrame

\* start_collection(): flush(), which waits for written bytes and drops
\* nothing that was received, then the flag.
StartCollection ==
    /\ col_pc # "off"
    /\ col_enabled' = TRUE
    /\ col_stopped' = FALSE
    /\ col_read' = FALSE
    /\ col_put' = FALSE
    /\ UNCHANGED <<col_pc, col_waiting, col_queued>>
    /\ CollectFrame

\* get_sample() with a sample queued.
CollectGetSample ==
    /\ col_pc # "off"
    /\ col_queued > 0
    /\ col_queued' = col_queued - 1
    /\ UNCHANGED <<col_enabled, col_pc, col_waiting, col_stopped, col_read,
                   col_put>>
    /\ CollectFrame

\* The sensor sends a payload.
CollectDeviceSends ==
    /\ col_pc # "off"
    /\ col_waiting < MaxWaiting
    /\ col_waiting' = col_waiting + 1
    /\ UNCHANGED <<col_enabled, col_pc, col_queued, col_stopped, col_read,
                   col_put>>
    /\ CollectFrame

CollectNext ==
    \/ CollectorTestsFlag
    \/ CollectorIsDataAvailable
    \/ CollectorReadUntil
    \/ CollectorQueuePut
    \/ StopCollection
    \/ StartCollection
    \/ CollectGetSample
    \/ CollectDeviceSends

\* SensorInterface(): collection enabled, the thread started.
InitCollect ==
    /\ OrchIdle /\ QueueIdle /\ DbIdle /\ GatewayIdle /\ IotIdle /\ EventIdle
    /\ LcdIdle /\ TfIdle /\ MiWorkerIdle /\ SerialIdle
    /\ col_enabled = TRUE
    /\ col_pc = "loop"
    /\ col_waiting = 0
    /\ col_queued = 0
    /\ col_stopped = FALSE
    /\ col_read = FALSE
    /\ col_put = FALSE

SpecCollect == InitCollect /\ [][CollectNext]_vars

\* C37: from the return of stop_collection until the next start_collection
\* the collection loop makes no serial read and enqueues no sample, in
\* every interleaving of the two threads.
C37_NoCollectionWhileStopped ==
    col_stopped => ~col_read /\ ~col_put


(***************************************************************************)
(* Recovery of the gateway after a transport drop (SpecIotLive).           *)
(***************************************************************************)

\* ThingsBoardClient.is_connected
gateway_is_connected == gw_connected /\ mqtt_is_connected(gw_mqtt_connected, gw_session)

\* connect() would report success (self._connected is set) while is_connected
\* is false, so that every send fails.
ConnectedInNameOnly == gw_pc = "idle" /\ gw_connected /\ ~gateway_is_connected

\* C38: after the broker transport dropped the gateway recovers by a later
\* connect() call: it does not stay forever in a state where connect()
\* reports success while is_connected is false.
C38_GatewayRecovers == ConnectedInNameOnly ~> ~ConnectedInNameOnly


(***************************************************************************)
(* The restart budget per worker-group generation (Spec).                  *)
(***************************************************************************)

WorkersRunning == \E p \in Proc : alive(p)

\* The workers of running_processes whose exception waits in the pipe.
FailedUndetected ==
    {p \in Proc : wpc[p] = "failed" /\ \E i \in 1..Len(running_processes) : running_processes[i] = p}

\* While the manager starts, monitors or restarts, the counter is the number
\* of generations charged: the ones restarted, and the one being torn down.
ChargedOncePerGeneration ==
    mgr_mode \in {"run", "restart"} =>
        process_fail_count = IF mgr_pc \in {"cleanup", "kill"} THEN generation
                                                               ELSE generation - 1

\* A detection that is followed by a restart charges exactly one, however
\* many workers of the generation have failed.
DetectionChargesOne ==
    (mgr_pc = "monitor" /\ mgr_mode' = "restart" /\ mgr_pc' = "cleanup") =>
        process_fail_count' = process_fail_count + 1

BudgetKeptWhileRunning == WorkersRunning => process_fail_count <= process_restart_count

\* The step that finds the budget exceeded and raises ChildProcessError.
FatalDetection == mgr_mode # "fatal" /\ mgr_mode' = "fatal"

\* C39 as stated: the budget is charged once per worker-group generation, also
\* when several of its workers failed before the monitor reacted; the counter
\* is never decreased; it is at most process_restart_count whenever workers
\* are running.
C39_CounterNeverDecreased ==
    /\ [](ChargedOncePerGeneration /\ BudgetKeptWhileRunning)
    /\ [][DetectionChargesOne /\ process_fail_count' >= process_fail_count]_vars

\* C39, amended: as stated, except that the counter is set back to 0 by the
\* detection that finds the budget exceeded and raises ChildProcessError; in
\* every other step it is not decreased.
C39_ChargedOncePerGeneration ==
    /\ [](ChargedOncePerGeneration /\ BudgetKeptWhileRunning)
    /\ [][/\ DetectionChargesOne
          /\ IF FatalDetection THEN process_fail_count' = 0
                               ELSE process_fail_count' >= process_fail_count]_vars

\* Witness of C39: a worker was found failed and the counter charged once for
\* the restart while another worker of the same generation has failed too.
C39_Witness ==
    /\ mgr_pc = "cleanup"
    /\ mgr_mode = "restart"
    /\ process_fail_count = 1
    /\ FailedUndetected # {}
    /\ \A p \in FailedUndetected : p[1] = generation
    /\ \E i \in 1..Len(running_processes) : wpc[running_processes[i]] = "dead"

=============================================================================
